---- MODULE Spec2Model ----
(***************************************************************************)
(* State-machine model of the FEL validation engine:                       *)
(*   - BusinessValidator.validate_dte and its eight rule groups            *)
(*     (src/src/validators/business_validator.py)                          *)
(*   - XMLValidator.validate_xml and SchemaManager.load_schema             *)
(*     (src/src/validators/xml_validator.py)                               *)
(*   - the format predicates of ValidationRules (src/config/fel_config.py) *)
(*                                                                         *)
(* Representation.                                                         *)
(*   _extract_xml_value returns None both for an absent element and for an *)
(*   element without text, so an optional text is NoneV or a string.       *)
(*   A numeric text is [k, v, s]: k = "none" (None), "bad" (a text         *)
(*   Decimal() rejects) or "num" with v the digits of the text as a number *)
(*   and s the number of decimals it is written with.                      *)
(*   A timestamp text is [k, v]: k = "none", "bad" (no strptime format     *)
(*   matches) or "dt" with v the day number of its date within 2024        *)
(*   (1 = 2024-01-01); the rules read only .date() of a timestamp.         *)
(*   An identifier (NIT, CUI) is a sequence of one-character strings.      *)
(***************************************************************************)
EXTENDS Integers, Sequences, FiniteSets, TLC

VARIABLES
    doc,            \* xml_content of the call, as the fields the code reads
    rtu,            \* behaviour of the injected RTUService
    renap,          \* behaviour of the injected RENAPService
    bugs,           \* rule groups in which an unexpected exception occurs
    pc,             \* position of the validate_dte call
    gi,             \* index of the next rule group of the loop
    all_errors,     \* validate_dte: all_errors
    all_warnings,   \* validate_dte: all_warnings
    rules_applied,  \* validate_dte: rules_applied
    result,         \* value returned by validate_dte
    blob,           \* schema cache: content file of the schema
    sidecar,        \* schema cache: the .info file of the schema
    schemas,        \* SchemaManager.schemas (in-process memo)
    net,            \* outcome of the next HTTPS fetch
    now,            \* wall clock, in hours
    xmlCalls,       \* number of validate_xml calls made
    xmlResult,      \* outcome of the last validate_xml call
    fn,             \* a direct call of one rule function or format predicate
    history,        \* the verdicts validate_dte returned so far, oldest first
    threads,        \* each thread's position in a concurrent load_schema call
    parses          \* the blob contents XMLSchema() was given so far, oldest first

vars == <<doc, rtu, renap, bugs, pc, gi, all_errors, all_warnings,
          rules_applied, result, blob, sidecar, schemas, net, now,
          xmlCalls, xmlResult, fn, history, threads, parses>>

dteVars == <<pc, gi, all_errors, all_warnings, rules_applied, result>>
xmlVars == <<blob, sidecar, schemas, net, now, xmlCalls, xmlResult>>
thrVars == <<threads, parses>>

MaxThreads == 2
Threads == 1..MaxThreads

\* a thread's position: where it is in load_schema, and the schema it holds
At(where, schema) == [at |-> where, schema |-> schema]
Idle == At("idle", "<None>")

-----------------------------------------------------------------------------
(* Values *)

NoneV == "<None>"

\* The text of a numeric field.  Decimal(text) of a numeric text keeps the
\* coefficient v and the number s of decimals the text was written with:
\* Dec(100000, 2) is "1000.00", Dec(1000, 0) is "1000".
Dec(m, s) == [k |-> "num", v |-> m, s |-> s]
NoNum == [k |-> "none", v |-> 0, s |-> 0]
BadNum == [k |-> "bad", v |-> 0, s |-> 0]
\* an amount written with two decimals
Num(n) == Dec(n, 2)
\* a number written without a decimal point
Whole(n) == Dec(n, 0)

NoDate == [k |-> "none", v |-> 0]
BadDate == [k |-> "bad", v |-> 0]
Day(n) == [k |-> "dt", v |-> n]

REJECT == "REJECT"
INFORM_ERROR == "INFORM_ERROR"
INFORM_WARNING == "INFORM_WARNING"

\* the fields of a finding that the properties read
BusinessValidationError(rule_code, severity, expected_value, actual_value) ==
    [code |-> rule_code, severity |-> severity,
     expected_value |-> expected_value, actual_value |-> actual_value]

\* _create_error without expected and actual
_create_error(rule_code, severity) ==
    BusinessValidationError(rule_code, severity, NoneV, NoneV)

\* _create_error(..., expected=..., actual=...)
_create_error_with(rule_code, severity, expected, actual) ==
    BusinessValidationError(rule_code, severity, expected, actual)

\* Outcome of a rule function: the list it returns, or an exception.  With an
\* exception, errs is what the function's local list held when it was raised;
\* the caller never gets that list.
Returns(errs) == [raised |-> FALSE, errs |-> errs]
Raises == [raised |-> TRUE, errs |-> <<>>]

RECURSIVE Extend(_)
\* errors.extend(f1(root)); errors.extend(f2(root)); ... : the first call that
\* raises ends the function with its exception.
Extend(outs) ==
    IF outs = <<>> THEN Returns(<<>>)
    ELSE IF Head(outs).raised THEN Head(outs)
    ELSE LET rest == Extend(Tail(outs))
         IN [raised |-> rest.raised, errs |-> Head(outs).errs \o rest.errs]

Abs(x) == IF x < 0 THEN -x ELSE x

Max(a, b) == IF a >= b THEN a ELSE b

RECURSIVE Pow10(_)
Pow10(n) == IF n = 0 THEN 1 ELSE 10 * Pow10(n - 1)

\* the coefficient of x written with s >= x.s decimals
Align(x, s) == x.v * Pow10(s - x.s)

\* Decimal arithmetic is exact: sums keep the larger number of decimals,
\* products the sum of the two
DecAdd(a, b) ==
    LET s == Max(a.s, b.s) IN Dec(Align(a, s) + Align(b, s), s)
DecSub(a, b) ==
    LET s == Max(a.s, b.s) IN Dec(Align(a, s) - Align(b, s), s)
DecMul(a, b) == Dec(a.v * b.v, a.s + b.s)
DecAbs(a) == Dec(Abs(a.v), a.s)
DecGt(a, b) ==
    LET s == Max(a.s, b.s) IN Align(a, s) > Align(b, s)
DecGe(a, b) ==
    LET s == Max(a.s, b.s) IN Align(a, s) >= Align(b, s)

RECURSIVE PadZeros(_, _)
\* digits, with zeros in front up to the width
PadZeros(digits, width) ==
    IF Len(digits) >= width THEN digits ELSE PadZeros("0" \o digits, width)

\* str(Decimal) of a non-negative coefficient v with s decimals: plain notation
\* while the exponent is at most 0 and the adjusted exponent at least -6,
\* scientific notation below that
StrOfNonNegative(v, s) ==
    LET digits == ToString(v)
        adjusted == Len(digits) - s - 1
    IN IF s = 0 THEN digits
       ELSE IF adjusted >= -6
       THEN (IF Len(digits) > s
             THEN ToString(v \div Pow10(s)) \o "."
                     \o PadZeros(ToString(v % Pow10(s)), s)
             ELSE "0." \o PadZeros(digits, s))
       ELSE IF Len(digits) = 1 THEN digits \o "E" \o ToString(adjusted)
       ELSE ToString(v \div Pow10(Len(digits) - 1)) \o "."
               \o PadZeros(ToString(v % Pow10(Len(digits) - 1)), Len(digits) - 1)
               \o "E" \o ToString(adjusted)

\* str(x) of a Decimal
DecStr(x) ==
    IF x.v < 0 THEN "-" \o StrOfNonNegative(-x.v, x.s) ELSE StrOfNonNegative(x.v, x.s)

-----------------------------------------------------------------------------
(* Calendar of 2024 (datetime arithmetic of _validate_emission_date) *)

MonthLen == <<31, 29, 31, 30, 31, 30, 31, 31, 30, 31, 30, 31>>

RECURSIVE DaysBefore(_)
DaysBefore(m) == IF m = 1 THEN 0 ELSE DaysBefore(m - 1) + MonthLen[m - 1]

\* date(2024, m, d) as a day number
Ord(m, d) == DaysBefore(m) + d

MonthOf(n) == CHOOSE m \in 1..12 : DaysBefore(m) < n /\ n <= DaysBefore(m) + MonthLen[m]

\* d.replace(day=1)
FirstOfMonth(n) == DaysBefore(MonthOf(n)) + 1

\* (d.replace(day=1) + timedelta(days=32)).replace(day=1) - timedelta(days=1)
LastOfMonth(n) == FirstOfMonth(FirstOfMonth(n) + 32) - 1

-----------------------------------------------------------------------------
(* Format validators: ValidationRules *)

DigitChars == <<"0", "1", "2", "3", "4", "5", "6", "7", "8", "9">>

IsDigit(c) == \E i \in 1..10 : DigitChars[i] = c

\* int(c) of a digit character
DigitVal(c) == (CHOOSE i \in 1..10 : DigitChars[i] = c) - 1

\* str.isdigit()
isdigit(s) == Len(s) > 0 /\ \A i \in 1..Len(s) : IsDigit(s[i])

RECURSIVE DigitsValue(_, _)
\* the number the digits denote, read from the left
DigitsValue(digits, acc) ==
    IF digits = <<>> THEN acc
    ELSE DigitsValue(Tail(digits), 10 * acc + DigitVal(Head(digits)))

\* int(text) of a text of digits and signs: the number, or ValueError
int_parse(text) ==
    LET signed == Len(text) > 0 /\ Head(text) \in {"+", "-"}
        digits == IF signed THEN Tail(text) ELSE text
    IN IF isdigit(digits)
       THEN [ok |-> TRUE,
             val |-> IF signed /\ Head(text) = "-" THEN -DigitsValue(digits, 0)
                     ELSE DigitsValue(digits, 0)]
       ELSE [ok |-> FALSE, val |-> 0]

RECURSIVE str_int(_)
\* str(n) of an int n >= 0, as characters
str_int(n) ==
    IF n < 10 THEN <<DigitChars[n + 1]>>
    ELSE Append(str_int(n \div 10), DigitChars[(n % 10) + 1])

RECURSIVE Text(_)
\* the characters as one string
Text(chars) == IF chars = <<>> THEN "" ELSE Head(chars) \o Text(Tail(chars))

CF == <<"C", "F">>
NoId == <<>>

\* NIT_PATTERN = ^\d{1,12}[0-9K]$
NIT_PATTERN(nit) ==
    /\ Len(nit) >= 2
    /\ Len(nit) <= 13
    /\ \A i \in 1..(Len(nit) - 1) : IsDigit(nit[i])
    /\ (IsDigit(nit[Len(nit)]) \/ nit[Len(nit)] = "K")

RECURSIVE NitTotal(_, _)
\* total += int(digit) * multiplier; multiplier -= 1
NitTotal(number_part, multiplier) ==
    IF number_part = <<>> THEN 0
    ELSE DigitVal(Head(number_part)) * multiplier
         + NitTotal(Tail(number_part), multiplier - 1)

\* validate_nit expecting str(11 - remainder) for every remainder but 0
validate_nit_without_k(nit) ==
    IF ~NIT_PATTERN(nit) THEN FALSE
    ELSE LET number_part == SubSeq(nit, 1, Len(nit) - 1)
             check_digit == nit[Len(nit)]
             remainder == NitTotal(number_part, Len(number_part) + 1) % 11
             expected_digit == IF remainder = 0 THEN "0"
                               ELSE DigitChars[((11 - remainder) % 10) + 1]
         IN check_digit = expected_digit

validate_nit(nit) ==
    IF ~NIT_PATTERN(nit) THEN FALSE
    ELSE LET number_part == SubSeq(nit, 1, Len(nit) - 1)
             check_digit == nit[Len(nit)]
             remainder == NitTotal(number_part, Len(number_part) + 1) % 11
             expected_digit == IF remainder = 0 THEN "0"
                               ELSE IF remainder = 1 THEN "K"
                               ELSE DigitChars[(11 - remainder) + 1]
         IN check_digit = expected_digit

\* CUI_PATTERN = ^\d{13}$
CUI_PATTERN(cui) == Len(cui) = 13 /\ \A i \in 1..13 : IsDigit(cui[i])

CuiMultipliers == <<2, 3, 4, 5, 6, 7, 8, 9>>

RECURSIVE CuiTotal(_, _)
CuiTotal(cui, i) ==
    IF i = 0 THEN 0
    ELSE DigitVal(cui[i]) * CuiMultipliers[i] + CuiTotal(cui, i - 1)

\* validate_cui with the eighth digit left out of the total
validate_cui_first_seven(cui) ==
    IF ~CUI_PATTERN(cui) THEN FALSE
    ELSE LET verification_digit == DigitVal(cui[9])
             calculated == (CuiTotal(cui, 7) * 10) % 11
             expected_digit == IF calculated = 10 THEN 0 ELSE calculated
         IN verification_digit = expected_digit

validate_cui(cui) ==
    IF ~CUI_PATTERN(cui) THEN FALSE
    ELSE LET verification_digit == DigitVal(cui[9])
             calculated == (CuiTotal(cui, 8) * 10) % 11
             expected_digit == IF calculated = 10 THEN 0 ELSE calculated
         IN verification_digit = expected_digit

\* MAX_CF_AMOUNT_GTQ = Decimal('2500.00'), in hundredths
MAX_CF_AMOUNT_GTQ == 250000

\* SystemConfig.MONETARY_TOLERANCE = Decimal('0.01'), in hundredths
MONETARY_TOLERANCE == 1

-----------------------------------------------------------------------------
(* Registry services.  The validator takes them by injection; rtu and renap  *)
(* say how the injected service answers: "mock" is the class of the          *)
(* repository, the other values are the answers of another implementation,   *)
(* "raise" a call that fails.                                                *)

Answer(v) == [raised |-> FALSE, val |-> v]
Fails == [raised |-> TRUE, val |-> FALSE]

TaxpayerInfo(status, iva, isr) ==
    [present |-> TRUE, status |-> status, iva_affiliation |-> iva,
     isr_affiliation |-> isr]
NoTaxpayerInfo ==
    [present |-> FALSE, status |-> NoneV, iva_affiliation |-> NoneV,
     isr_affiliation |-> NoneV]

\* RTUService.validate_nit_exists
validate_nit_exists(nit) ==
    CASE rtu.exists = "mock" -> Answer(validate_nit(nit))
      [] rtu.exists = "yes" -> Answer(TRUE)
      [] rtu.exists = "no" -> Answer(FALSE)
      [] OTHER -> Fails

\* RTUService.get_taxpayer_info
get_taxpayer_info(nit) ==
    CASE rtu.info = "mock" ->
            Answer(IF nit = CF THEN TaxpayerInfo("ACTIVE", NoneV, NoneV)
                   ELSE TaxpayerInfo("ACTIVE", "GEN", "REG"))
      [] rtu.info = "inactive" -> Answer(TaxpayerInfo("INACTIVE", "GEN", "REG"))
      [] rtu.info = "agent" -> Answer(TaxpayerInfo("ACTIVE", "AGENT", "OPT"))
      [] rtu.info = "none" -> Answer(NoTaxpayerInfo)
      [] OTHER -> [raised |-> TRUE, val |-> NoTaxpayerInfo]

\* RTUService.validate_establishment_active
validate_establishment_active ==
    CASE rtu.estab = "mock" -> Answer(TRUE)
      [] rtu.estab = "no" -> Answer(FALSE)
      [] OTHER -> Fails

RenapAnswer(valid, status) == [raised |-> FALSE, valid |-> valid, status |-> status]

\* RENAPService.validate_cui
renap_validate_cui(cui) ==
    CASE renap = "mock" ->
            IF ~validate_cui(cui) THEN RenapAnswer(FALSE, "INVALID_FORMAT")
            ELSE RenapAnswer(TRUE, "ACTIVE")
      [] renap = "notfound" -> RenapAnswer(FALSE, "NOT_FOUND")
      [] renap = "deceased" -> RenapAnswer(TRUE, "DECEASED")
      [] OTHER -> [raised |-> TRUE, valid |-> FALSE, status |-> NoneV]

-----------------------------------------------------------------------------
(* Group 1: validate_general_part1 *)

InvoiceClass ==
    {"FACT", "FCAM", "FPEQ", "FCAP", "FCCA", "FACA", "FAPE", "FAAE", "FCPE", "FCAE"}

\* emission_date.date() > certification_date.replace(day=1) + timedelta(days=32)
\* compares a date with a datetime: Python raises TypeError for every pair of
\* values.  TRUE = the comparison raises.
DateVsDatetimeRaises == TRUE

_validate_emission_date(d) ==
    IF d.FechaHoraEmision.k = "none"
    THEN Returns(<<_create_error("2.2.1.0", REJECT)>>)
    ELSE IF d.FechaHoraEmision.k = "bad"
    THEN Returns(<<_create_error("2.2.1.0", REJECT)>>)
    ELSE IF d.FechaHoraCertificacion.k # "dt"
    THEN Returns(<<>>)
    ELSE LET emission == d.FechaHoraEmision.v
             certification == d.FechaHoraCertificacion.v
             days_diff == certification - emission
             e1 == IF d.TipoDTE \notin {"CIVA", "CAIS"} /\ days_diff > 5
                   THEN <<_create_error("2.2.1.1", INFORM_ERROR)>>
                   ELSE <<>>
             e2 == IF emission > FirstOfMonth(certification) + 32
                      /\ emission > LastOfMonth(certification)
                   THEN <<_create_error("2.2.1.2", INFORM_ERROR)>>
                   ELSE <<>>
         IN IF DateVsDatetimeRaises THEN Raises ELSE Returns(e1 \o e2)

_validate_nit_emisor(d) ==
    IF d.NITEmisor = NoId
    THEN Returns(<<_create_error("2.2.2.0", REJECT)>>)
    ELSE LET exists == validate_nit_exists(d.NITEmisor)
             info == get_taxpayer_info(d.NITEmisor)
         IN IF exists.raised THEN Raises
            \* _create_error(..., actual_value=nit_emisor): _create_error has no
            \* parameter actual_value, the call raises TypeError
            ELSE IF ~exists.val THEN Raises
            ELSE IF info.raised THEN Raises
            ELSE LET e2 == IF ~info.val.present \/ info.val.status # "ACTIVE"
                           THEN <<_create_error("2.2.2.2", REJECT)>>
                           ELSE <<>>
                     iva_affiliation == IF info.val.present
                                        THEN info.val.iva_affiliation ELSE NoneV
                     e3 == IF d.TipoDTE \notin {"CIVA", "FESP", "RECI", "RDON"}
                              /\ iva_affiliation = NoneV
                           THEN <<_create_error("2.2.2.3", REJECT)>>
                           ELSE <<>>
                 IN Returns(e2 \o e3)

_validate_establishment_code(d) ==
    IF d.CodigoEstablecimiento = NoneV
    THEN Returns(<<_create_error("2.2.3.0", REJECT)>>)
    ELSE IF d.NITEmisor # NoId /\ d.FechaHoraEmision.k = "dt"
    THEN LET active == validate_establishment_active
         IN IF active.raised THEN Raises
            ELSE IF ~active.val
            THEN Returns(<<_create_error("2.2.3.1", REJECT)>>)
            ELSE Returns(<<>>)
    ELSE Returns(<<>>)

\* Rule 2.2.4.1 .. 2.2.4.10: the TipoEspecial = "CUI" branch
CuiFindings(d) ==
    IF d.TipoEspecial # "CUI" THEN Returns(<<>>)
    ELSE IF ~isdigit(d.IDReceptor)
    THEN Returns(<<_create_error("2.2.4.1", REJECT)>>)
    ELSE IF ~validate_cui(d.IDReceptor)
    THEN Returns(<<_create_error("2.2.4.3", REJECT)>>)
    ELSE LET renap_result == renap_validate_cui(d.IDReceptor)
         IN IF renap_result.raised THEN Raises
            ELSE IF ~renap_result.valid
            THEN Returns(<<_create_error("2.2.4.9", REJECT)>>)
            ELSE IF renap_result.status = "DECEASED"
            THEN Returns(<<_create_error("2.2.4.10", INFORM_ERROR)>>)
            ELSE Returns(<<>>)

\* Rule 2.2.4.11.  Decimal(gran_total_str) raises decimal.InvalidOperation for a
\* non-numeric text, which except (ValueError, TypeError) does not catch.
CfLimitFindings(d) ==
    IF d.IDReceptor = CF /\ d.GranTotal.k # "none"
    THEN IF d.GranTotal.k = "bad" THEN Raises
         ELSE IF d.TipoDTE \in InvoiceClass
                 /\ DecGe(d.GranTotal, Dec(MAX_CF_AMOUNT_GTQ, 2))
         THEN Returns(<<_create_error("2.2.4.11", REJECT)>>)
         ELSE Returns(<<>>)
    ELSE Returns(<<>>)

\* _validate_id_receptor checking the NIT of the receptor on non-exports only
_validate_id_receptor_nit_unless_export(d) ==
    IF d.IDReceptor = NoId
    THEN Returns(<<_create_error("2.2.4.0", REJECT)>>)
    ELSE LET e2 == IF d.TipoEspecial = "CUI" /\ d.Exp
                   THEN Returns(<<_create_error("2.2.4.2", REJECT)>>)
                   ELSE Returns(<<>>)
             exists == validate_nit_exists(d.IDReceptor)
             e4 == IF d.TipoEspecial = NoneV /\ d.IDReceptor # CF /\ ~d.Exp
                   THEN IF exists.raised THEN Raises
                        ELSE IF ~exists.val
                        THEN Returns(<<_create_error("2.2.4.4", REJECT)>>)
                        ELSE Returns(<<>>)
                   ELSE Returns(<<>>)
         IN Extend(<<CuiFindings(d), e2, e4, CfLimitFindings(d)>>)

_validate_id_receptor(d) ==
    IF d.IDReceptor = NoId
    THEN Returns(<<_create_error("2.2.4.0", REJECT)>>)
    ELSE LET e2 == IF d.TipoEspecial = "CUI" /\ d.Exp
                   THEN Returns(<<_create_error("2.2.4.2", REJECT)>>)
                   ELSE Returns(<<>>)
             exists == validate_nit_exists(d.IDReceptor)
             e4 == IF d.TipoEspecial = NoneV /\ d.IDReceptor # CF
                   THEN IF exists.raised THEN Raises
                        ELSE IF ~exists.val
                        THEN Returns(<<_create_error("2.2.4.4", REJECT)>>)
                        ELSE Returns(<<>>)
                   ELSE Returns(<<>>)
         IN Extend(<<CuiFindings(d), e2, e4, CfLimitFindings(d)>>)

_validate_export_flag(d) ==
    IF d.Exp
    THEN LET e1 == IF d.TipoDTE \in {"NABN", "RDON", "RECI", "FESP", "CIVA", "CAIS"}
                   THEN <<_create_error("2.2.5.1", REJECT)>>
                   ELSE <<>>
             has_export_complement == d.Exportacion = "text"
             e2 == IF d.TipoDTE \notin {"NDEB", "NCRE"} /\ ~has_export_complement
                   THEN <<_create_error("2.2.5.2", REJECT)>>
                   ELSE <<>>
         IN Returns(e1 \o e2)
    ELSE Returns(<<>>)

_validate_public_show_flag(d) ==
    IF d.EspectaculoPublico
    THEN LET e1 == IF d.TipoDTE \notin {"FACT", "FCAM", "FPEQ", "FCAP", "FAPE", "FCPE"}
                   THEN <<_create_error("2.2.6.1", REJECT)>>
                   ELSE <<>>
             e2 == IF d.Exp THEN <<_create_error("2.2.6.2", REJECT)>> ELSE <<>>
             e3 == IF ~d.EspectaculosPublicos
                   THEN <<_create_error("2.2.6.3", REJECT)>>
                   ELSE <<>>
         IN Returns(e1 \o e2 \o e3)
    ELSE Returns(<<>>)

_validate_currency(d) ==
    IF d.IDReceptor = CF /\ d.Moneda # "GTQ" /\ d.GranTotal.k # "none"
    THEN IF d.GranTotal.k = "bad" THEN Raises
         ELSE IF DecGe(d.GranTotal, Dec(MAX_CF_AMOUNT_GTQ, 2))
         THEN Returns(<<_create_error("2.2.7.2", REJECT)>>)
         ELSE Returns(<<>>)
    ELSE Returns(<<>>)

validate_general_part1(d) ==
    Extend(<<_validate_emission_date(d), _validate_nit_emisor(d),
             _validate_establishment_code(d), _validate_id_receptor(d),
             _validate_export_flag(d), _validate_public_show_flag(d),
             _validate_currency(d)>>)

-----------------------------------------------------------------------------
(* Group 2: validate_items *)

\* Decimal(text) if text else Decimal("0"); a "bad" text raises InvalidOperation
\* int(text) succeeds: digits without a decimal point
IntParses(x) == x.k = "num" /\ x.s = 0

DecimalOrZero(x) == IF x.k = "num" THEN x ELSE Whole(0)

_validate_single_item(item, d) ==
    IF \/ item.Cantidad.k = "bad"
       \/ item.PrecioUnitario.k = "bad"
       \/ item.Precio.k = "bad"
       \/ item.Descuento.k = "bad"
       \/ item.OtrosDescuento.k = "bad"
    \* decimal.InvalidOperation is neither ValueError nor TypeError: the handler
    \* that would emit 2.3.5.0 does not catch it
    THEN Raises
    ELSE LET quantity == DecimalOrZero(item.Cantidad)
             unit_price == DecimalOrZero(item.PrecioUnitario)
             price == DecimalOrZero(item.Precio)
             discount == DecimalOrZero(item.Descuento)
             other_discount == DecimalOrZero(item.OtrosDescuento)
             \* quantity * unit_price, exact and not rounded
             expected_price == DecMul(quantity, unit_price)
             e1 == IF DecGt(DecAbs(DecSub(price, expected_price)),
                            Dec(MONETARY_TOLERANCE, 2))
                   THEN <<_create_error_with("2.3.5.1", REJECT,
                                             DecStr(expected_price), DecStr(price))>>
                   ELSE <<>>
             e2 == IF DecGt(discount, price)
                   THEN <<_create_error("2.3.6.1", REJECT)>> ELSE <<>>
             e3 == IF DecGt(other_discount, DecSub(price, discount))
                   THEN <<_create_error("2.3.7.1", REJECT)>> ELSE <<>>
             e4 == IF d.TipoDTE \in {"FACA", "FCCA", "FAAE", "FCAE"}
                      /\ item.BienOServicio # "B"
                   THEN <<_create_error("2.3.8.1", REJECT)>> ELSE <<>>
             e5 == IF d.EspectaculoPublico /\ item.BienOServicio # "S"
                   THEN <<_create_error("2.3.8.2", REJECT)>> ELSE <<>>
         IN Returns(e1 \o e2 \o e3 \o e4 \o e5)

validate_items(d) ==
    LET e1 == IF d.EspectaculoPublico /\ Len(d.items) > 1
              THEN <<_create_error("2.3.1.1", REJECT)>> ELSE <<>>
        e2 == IF d.TipoDTE = "CIVA" /\ Len(d.items) > 2
              THEN <<_create_error("2.3.1.2", REJECT)>> ELSE <<>>
    IN Extend(<<Returns(e1 \o e2)>>
              \o [i \in 1..Len(d.items) |-> _validate_single_item(d.items[i], d)])

-----------------------------------------------------------------------------
(* Group 3: validate_taxes *)

\* One Impuesto element with NombreCorto = 'IVA'
IvaFindings(tax) ==
    IF tax.MontoGravable.k = "none"
    THEN Returns(<<_create_error("2.7.1.1", REJECT)>>)
    ELSE IF tax.MontoGravable.k = "bad" THEN Raises
    \* int(codigo_unidad_str) raises ValueError, which is caught
    ELSE IF tax.CodigoUnidadGravable.k # "none" /\ ~IntParses(tax.CodigoUnidadGravable)
    THEN Returns(<<_create_error("2.7.0", REJECT)>>)
    ELSE IF tax.MontoImpuesto.k = "bad" THEN Raises
    ELSE LET monto_gravable == tax.MontoGravable
             codigo_unidad == IF tax.CodigoUnidadGravable.k = "none" THEN 0
                              ELSE tax.CodigoUnidadGravable.v
             monto_impuesto == DecimalOrZero(tax.MontoImpuesto)
             e1 == IF codigo_unidad \notin {1, 2}
                   THEN <<_create_error("2.7.2.1", REJECT)>> ELSE <<>>
             \* monto_gravable * Decimal("0.12"), exact and not rounded
             expected_tax == IF codigo_unidad = 1 THEN DecMul(monto_gravable, Dec(12, 2))
                             ELSE Whole(0)
             e2 == IF DecGt(DecAbs(DecSub(monto_impuesto, expected_tax)),
                            Dec(MONETARY_TOLERANCE, 2))
                   THEN <<_create_error_with("2.7.4.1", REJECT,
                                             DecStr(expected_tax), DecStr(monto_impuesto))>>
                   ELSE <<>>
         IN Returns(e1 \o e2)

_validate_iva_tax(d) == Extend([i \in 1..Len(d.taxes) |-> IvaFindings(d.taxes[i])])

validate_taxes(d) == _validate_iva_tax(d)

-----------------------------------------------------------------------------
(* Group 4: validate_phrases *)

\* phrase_types_present[tipo_frase] = codigo_escenario on a dict kept as the
\* sequence of its (key, value) pairs in insertion order
DictSet(dict, key, val) ==
    IF \E i \in 1..Len(dict) : dict[i][1] = key
    THEN [i \in 1..Len(dict) |-> IF dict[i][1] = key THEN <<key, val>> ELSE dict[i]]
    ELSE Append(dict, <<key, val>>)

DictHas(dict, key) == \E i \in 1..Len(dict) : dict[i][1] = key

DictGet(dict, key) == dict[CHOOSE i \in 1..Len(dict) : dict[i][1] = key][2]

RECURSIVE PhraseTypesPresent(_, _)
PhraseTypesPresent(phrases, dict) ==
    IF phrases = <<>> THEN dict
    ELSE LET p == Head(phrases)
         IN IF IntParses(p.TipoFrase) /\ IntParses(p.CodigoEscenario)
            THEN PhraseTypesPresent(Tail(phrases),
                                    DictSet(dict, p.TipoFrase.v, p.CodigoEscenario.v))
            ELSE PhraseTypesPresent(Tail(phrases), dict)

\* IVA_EXEMPTION_SCENARIOS[n]['allowed_dte']
IVA_EXEMPTION_SCENARIOS ==
    <<{"FACT", "FCAM"}, {"FACT", "FCAM"}, {"FACT", "FCAM"}, {"RDON"}>>

\* f"2.6.1.{codigo_escenario}" for the scenarios of the table
ScenarioRuleCode == <<"2.6.1.1", "2.6.1.2", "2.6.1.3", "2.6.1.4">>

_validate_phrase_scenario(tipo_frase, codigo_escenario, dte_type, taxpayer_info) ==
    LET e4 == IF tipo_frase # 4 THEN <<>>
              ELSE IF codigo_escenario \notin DOMAIN IVA_EXEMPTION_SCENARIOS
              THEN <<_create_error("2.6.1.3", INFORM_ERROR)>>
              ELSE IF dte_type \notin IVA_EXEMPTION_SCENARIOS[codigo_escenario]
              THEN <<_create_error(ScenarioRuleCode[codigo_escenario], INFORM_ERROR)>>
              ELSE <<>>
        e1 == IF tipo_frase = 1 /\ codigo_escenario = 1
                 /\ taxpayer_info.isr_affiliation # "REG"
              THEN <<_create_error("2.6.1.1", INFORM_ERROR)>>
              ELSE <<>>
    IN e4 \o e1

RECURSIVE ScenarioFindings(_, _, _)
ScenarioFindings(dict, dte_type, taxpayer_info) ==
    IF dict = <<>> THEN <<>>
    ELSE _validate_phrase_scenario(Head(dict)[1], Head(dict)[2], dte_type, taxpayer_info)
         \o ScenarioFindings(Tail(dict), dte_type, taxpayer_info)

validate_phrases(d) ==
    LET looked == IF d.NITEmisor # NoId THEN get_taxpayer_info(d.NITEmisor)
                  ELSE Answer(TaxpayerInfo(NoneV, NoneV, NoneV))
        taxpayer_info == looked.val
        phrase_types_present == PhraseTypesPresent(d.phrases, <<>>)
        e6 == IF d.Exp /\ d.TipoDTE \in {"FACT", "FCAM", "NDEB", "NCRE"}
              THEN IF ~DictHas(phrase_types_present, 4)
                   THEN <<_create_error("2.6.1.6", INFORM_ERROR)>>
                   ELSE IF DictGet(phrase_types_present, 4) # 1
                   THEN <<_create_error("2.6.1.7", INFORM_ERROR)>>
                   ELSE <<>>
              ELSE <<>>
        e5 == IF d.TipoDTE \in {"FACT", "FCAM", "NCRE", "NDEB"}
                 /\ taxpayer_info.iva_affiliation = "AGENT"
                 /\ ~DictHas(phrase_types_present, 2)
              THEN <<_create_error("2.6.1.5", INFORM_ERROR)>>
              ELSE <<>>
    IN IF looked.raised THEN Raises
       \* get_taxpayer_info returned None: taxpayer_info.get raises AttributeError
       ELSE IF ~taxpayer_info.present THEN Raises
       ELSE Returns(e6 \o e5
                    \o ScenarioFindings(phrase_types_present, d.TipoDTE, taxpayer_info))

-----------------------------------------------------------------------------
(* UUID texts: a sequence of one-character strings *)

HexLower == <<"0", "1", "2", "3", "4", "5", "6", "7", "8", "9",
              "a", "b", "c", "d", "e", "f">>
HexUpper == <<"0", "1", "2", "3", "4", "5", "6", "7", "8", "9",
              "A", "B", "C", "D", "E", "F">>

IsHex(c) == \E i \in 1..16 : HexLower[i] = c \/ HexUpper[i] = c

\* int(c, 16)
HexVal(c) == (CHOOSE i \in 1..16 : HexLower[i] = c \/ HexUpper[i] = c) - 1

\* c.upper() for the characters of a UUID text
UpperChar(c) == IF IsHex(c) THEN HexUpper[HexVal(c) + 1] ELSE c

upper(s) == [i \in 1..Len(s) |-> UpperChar(s[i])]

\* s.replace('-', '')
RemoveHyphens(s) == SelectSeq(s, LAMBDA c : c # "-")

\* UUID_PATTERN, with re.IGNORECASE:
\* ^[0-9a-f]{8}-[0-9a-f]{4}-4[0-9a-f]{3}-[89ab][0-9a-f]{3}-[0-9a-f]{12}$
UUID_PATTERN(s) ==
    /\ Len(s) = 36
    /\ \A i \in 1..36 :
          IF i \in {9, 14, 19, 24} THEN s[i] = "-"
          ELSE IF i = 15 THEN s[i] = "4"
          ELSE IF i = 20 THEN s[i] \in {"8", "9", "a", "b", "A", "B"}
          ELSE IsHex(s[i])

NumeroModulus == 999999999

RECURSIVE TimesMod(_, _, _)
\* (a * 2^k) % m without leaving 32-bit integers
TimesMod(a, k, m) == IF k = 0 THEN a % m ELSE TimesMod((a * 2) % m, k - 1, m)

RECURSIVE HexMod(_, _, _)
\* int(hex_portion, 16) % m, digit by digit
HexMod(hex_portion, acc, m) ==
    IF hex_portion = <<>> THEN acc
    ELSE HexMod(Tail(hex_portion),
                (TimesMod(acc, 4, m) + HexVal(Head(hex_portion))) % m, m)

\* generate_serie_from_uuid
generate_serie_from_uuid(uuid_str) == upper(SubSeq(RemoveHyphens(uuid_str), 1, 8))

\* generate_numero_from_uuid reduced modulo 10^9
generate_numero_from_uuid_mod_1e9(uuid_str) ==
    HexMod(SubSeq(RemoveHyphens(uuid_str), 9, 16), 0, 1000000000)

\* generate_numero_from_uuid
generate_numero_from_uuid(uuid_str) ==
    HexMod(SubSeq(RemoveHyphens(uuid_str), 9, 16), 0, NumeroModulus)

-----------------------------------------------------------------------------
(* Group 5: validate_complements *)

INCOTERMS ==
    {"EXW", "FCA", "FAS", "FOB", "CFR", "CIF", "CPT", "CIP", "DDP", "DAP", "DPU", "ZZZ"}

_validate_export_complement(d) ==
    IF d.Exportacion = "absent" THEN <<>>
    ELSE IF d.INCOTERM # NoneV /\ d.INCOTERM \notin INCOTERMS
    THEN <<_create_error("3.2.1.2", REJECT)>>
    ELSE <<>>

_validate_reference_complement(d) ==
    IF d.TipoDTE \notin {"NCRE", "NDEB"} THEN <<>>
    ELSE IF ~d.ReferenciasNota THEN <<_create_error("3.5.0", REJECT)>>
    ELSE IF d.NumeroAutorizacionDocumentoOrigen = NoId
    THEN <<_create_error("3.5.1.0", REJECT)>>
    ELSE IF ~UUID_PATTERN(d.NumeroAutorizacionDocumentoOrigen)
    THEN <<_create_error("3.5.1.1", REJECT)>>
    ELSE <<>>

validate_complements(d) ==
    LET e1 == IF d.Exp /\ d.Exportacion # "text" /\ d.TipoDTE \notin {"NDEB", "NCRE"}
              THEN <<_create_error("3.2.1.1", REJECT)>> ELSE <<>>
        e2 == IF d.EspectaculoPublico /\ ~d.EspectaculosPublicos
              THEN <<_create_error("3.7.1.1", REJECT)>> ELSE <<>>
    IN Returns(e1 \o e2 \o _validate_export_complement(d)
               \o _validate_reference_complement(d))

-----------------------------------------------------------------------------
(* Group 6: validate_totals *)

RECURSIVE ItemTotals(_)
\* sum(item_totals), or "raise": Decimal(total_str) raises InvalidOperation,
\* which neither except ValueError catches
ItemTotals(items) ==
    IF items = <<>> THEN [raised |-> FALSE, sum |-> Whole(0)]
    ELSE LET rest == ItemTotals(Tail(items))
         IN IF Head(items).Total.k = "bad" \/ rest.raised
            THEN [raised |-> TRUE, sum |-> Whole(0)]
            ELSE [raised |-> FALSE,
                  sum |-> DecAdd(DecimalOrZero(Head(items).Total), rest.sum)]

\* validate_totals with the difference compared without abs()
validate_totals_signed(d) ==
    IF d.GranTotal.k = "none" THEN Returns(<<>>)
    ELSE IF d.GranTotal.k = "bad" THEN Raises
    ELSE LET gran_total == d.GranTotal
             e4 == IF d.IDReceptor = CF /\ d.TipoDTE \in InvoiceClass
                      /\ DecGe(gran_total, Dec(MAX_CF_AMOUNT_GTQ, 2))
                   THEN <<_create_error("2.19.2.4", REJECT)>> ELSE <<>>
             calculated_total == ItemTotals(d.items)
         IN IF calculated_total.raised THEN Raises
            ELSE Returns(e4 \o
                  (IF DecGt(DecSub(gran_total, calculated_total.sum),
                            Dec(MONETARY_TOLERANCE, 2))
                   THEN <<_create_error_with("2.19.2.1", REJECT,
                                             DecStr(calculated_total.sum),
                                             DecStr(gran_total))>>
                   ELSE <<>>))

validate_totals(d) ==
    IF d.GranTotal.k = "none" THEN Returns(<<>>)
    \* Decimal(gran_total_str) raises InvalidOperation; the handler that would
    \* emit 2.19.2.0 catches ValueError only
    ELSE IF d.GranTotal.k = "bad" THEN Raises
    ELSE LET gran_total == d.GranTotal
             e4 == IF d.IDReceptor = CF /\ d.TipoDTE \in InvoiceClass
                      /\ DecGe(gran_total, Dec(MAX_CF_AMOUNT_GTQ, 2))
                   THEN <<_create_error("2.19.2.4", REJECT)>> ELSE <<>>
             calculated_total == ItemTotals(d.items)
         IN IF calculated_total.raised THEN Raises
            ELSE Returns(e4 \o
                  (IF DecGt(DecAbs(DecSub(gran_total, calculated_total.sum)),
                            Dec(MONETARY_TOLERANCE, 2))
                   THEN <<_create_error_with("2.19.2.1", REJECT,
                                             DecStr(calculated_total.sum),
                                             DecStr(gran_total))>>
                   ELSE <<>>))

-----------------------------------------------------------------------------
(* Group 7: validate_signatures *)

validate_signatures(d) ==
    Returns((IF ~d.SignatureEmisor
             THEN <<_create_error("3.12.1.1", REJECT)>> ELSE <<>>)
            \o (IF ~d.SignatureCertificador
                THEN <<_create_error("3.12.4.1", REJECT)>> ELSE <<>>))

-----------------------------------------------------------------------------
(* Group 8: validate_uuid_format *)

\* validate_uuid_format expecting the serie in the letter case of the UUID
validate_uuid_format_as_written(d) ==
    IF d.NumeroAutorizacion = NoId THEN Returns(<<>>)
    ELSE IF ~UUID_PATTERN(d.NumeroAutorizacion)
    THEN Returns(<<_create_error("3.12.5.1", REJECT)>>)
    ELSE LET expected_serie == SubSeq(RemoveHyphens(d.NumeroAutorizacion), 1, 8)
             e6 == IF d.Serie # expected_serie
                   THEN <<_create_error_with("3.12.6.1", REJECT, Text(expected_serie),
                                             IF d.Serie = NoId THEN NoneV
                                             ELSE Text(d.Serie))>>
                   ELSE <<>>
             hex_portion == SubSeq(RemoveHyphens(d.NumeroAutorizacion), 9, 16)
             expected_numero == HexMod(hex_portion, 0, NumeroModulus)
             numero == int_parse(d.Numero)
             e7 == IF d.Numero = NoId THEN <<>>
                   ELSE IF ~numero.ok
                   THEN <<_create_error("3.12.7.0", REJECT)>>
                   ELSE IF numero.val # expected_numero
                   THEN <<_create_error_with("3.12.7.1", REJECT,
                                             ToString(expected_numero),
                                             ToString(numero.val))>>
                   ELSE <<>>
         IN Returns(e6 \o e7)

validate_uuid_format(d) ==
    IF d.NumeroAutorizacion = NoId THEN Returns(<<>>)
    ELSE IF ~UUID_PATTERN(d.NumeroAutorizacion)
    THEN Returns(<<_create_error("3.12.5.1", REJECT)>>)
    ELSE LET expected_serie == upper(SubSeq(RemoveHyphens(d.NumeroAutorizacion), 1, 8))
             e6 == IF d.Serie # expected_serie
                   THEN <<_create_error_with("3.12.6.1", REJECT, Text(expected_serie),
                                             IF d.Serie = NoId THEN NoneV
                                             ELSE Text(d.Serie))>>
                   ELSE <<>>
             hex_portion == SubSeq(RemoveHyphens(d.NumeroAutorizacion), 9, 16)
             expected_numero == HexMod(hex_portion, 0, NumeroModulus)
             numero == int_parse(d.Numero)
             e7 == IF d.Numero = NoId THEN <<>>
                   ELSE IF ~numero.ok
                   THEN <<_create_error("3.12.7.0", REJECT)>>
                   ELSE IF numero.val # expected_numero
                   THEN <<_create_error_with("3.12.7.1", REJECT,
                                             ToString(expected_numero),
                                             ToString(numero.val))>>
                   ELSE <<>>
         IN Returns(e6 \o e7)

-----------------------------------------------------------------------------
(* validate_dte: the orchestrator *)

\* validation_groups
GroupNames == <<"General Part 1", "Items", "Taxes", "Phrases", "Complements",
                "Totals", "Signatures", "UUID Format">>

NGroups == Len(GroupNames)

\* f"SYSTEM_{group_name.upper().replace(' ', '_')}"
SystemCodes == <<"SYSTEM_GENERAL_PART_1", "SYSTEM_ITEMS", "SYSTEM_TAXES",
                 "SYSTEM_PHRASES", "SYSTEM_COMPLEMENTS", "SYSTEM_TOTALS",
                 "SYSTEM_SIGNATURES", "SYSTEM_UUID_FORMAT">>

\* validation_func(root) of group g
validation_func(g, d) ==
    CASE g = 1 -> validate_general_part1(d)
      [] g = 2 -> validate_items(d)
      [] g = 3 -> validate_taxes(d)
      [] g = 4 -> validate_phrases(d)
      [] g = 5 -> validate_complements(d)
      [] g = 6 -> validate_totals(d)
      [] g = 7 -> validate_signatures(d)
      [] OTHER -> validate_uuid_format(d)

\* The call of group g: an exception of a cause outside the fields modelled here
\* (g \in bugs), or what the group's rules do with the document.
GroupCall(g, d) == IF g \in bugs THEN Raises ELSE validation_func(g, d)

\* A finding as the loop receives it, with the group and the position in the
\* group's list that produced it (history, not fields of the error object).
Tagged(errs, g) ==
    [i \in 1..Len(errs) |->
        [code |-> errs[i].code, severity |-> errs[i].severity,
         expected_value |-> errs[i].expected_value,
         actual_value |-> errs[i].actual_value, grp |-> g, idx |-> i]]

IsReject(e) == e.severity = REJECT
NotReject(e) == e.severity # REJECT

\* a distribution that puts every finding of the group in the errors list
GroupErrorsKeepsAll(errs, g) == Tagged(errs, g)

\* for error in group_errors: REJECT -> all_errors, else -> all_warnings
GroupErrors(errs, g) == SelectSeq(Tagged(errs, g), IsReject)
GroupWarnings(errs, g) == SelectSeq(Tagged(errs, g), NotReject)

\* the except branch of the loop
SystemFinding(g) ==
    Tagged(<<_create_error(SystemCodes[g], REJECT)>>, g)

\* the except branches of the outer try
ParseFinding(rule_code) ==
    Tagged(<<_create_error(rule_code, REJECT)>>, 0)

NoResult == [returned |-> FALSE]

\* BusinessValidationResult.blocking_errors
blocking_errors(r) == SelectSeq(r.errors, IsReject)

\* BusinessValidationResult.has_blocking_errors
has_blocking_errors(r) == Len(blocking_errors(r)) > 0

\* etree.fromstring(xml_content.encode('utf-8')) succeeds
DteParseOk ==
    /\ pc = "idle"
    /\ doc.encodable /\ doc.wellFormed
    /\ pc' = "groups"
    /\ gi' = 1
    /\ UNCHANGED <<doc, rtu, renap, bugs, all_errors, all_warnings, rules_applied,
                   result>>
    /\ UNCHANGED xmlVars
    /\ UNCHANGED <<fn, history>>
    /\ UNCHANGED thrVars

\* ... raises: XMLSyntaxError -> XML_PARSE_ERROR; UnicodeEncodeError of
\* encode('utf-8') -> except Exception -> SYSTEM_ERROR
DteParseFails ==
    /\ pc = "idle"
    /\ ~(doc.encodable /\ doc.wellFormed)
    /\ all_errors' = all_errors
                     \o ParseFinding(IF ~doc.encodable THEN "SYSTEM_ERROR"
                                     ELSE "XML_PARSE_ERROR")
    /\ pc' = "result"
    /\ UNCHANGED <<doc, rtu, renap, bugs, gi, all_warnings, rules_applied, result>>
    /\ UNCHANGED xmlVars
    /\ UNCHANGED <<fn, history>>
    /\ UNCHANGED thrVars

AfterGroup == IF gi = NGroups THEN "result" ELSE "groups"

\* the try branch putting the group's findings in front of the earlier ones
RunGroupReturnsPrepends ==
    /\ pc = "groups"
    /\ ~GroupCall(gi, doc).raised
    /\ LET group_errors == GroupCall(gi, doc).errs
       IN /\ all_errors' = GroupErrors(group_errors, gi) \o all_errors
          /\ all_warnings' = GroupWarnings(group_errors, gi) \o all_warnings
    /\ rules_applied' = Append(rules_applied, GroupNames[gi])
    /\ gi' = gi + 1
    /\ pc' = AfterGroup
    /\ UNCHANGED <<doc, rtu, renap, bugs, result>>
    /\ UNCHANGED xmlVars
    /\ UNCHANGED <<fn, history>>
    /\ UNCHANGED thrVars

\* one iteration of the loop, try branch
RunGroupReturns ==
    /\ pc = "groups"
    /\ ~GroupCall(gi, doc).raised
    /\ LET group_errors == GroupCall(gi, doc).errs
       IN /\ all_errors' = all_errors \o GroupErrors(group_errors, gi)
          /\ all_warnings' = all_warnings \o GroupWarnings(group_errors, gi)
    /\ rules_applied' = Append(rules_applied, GroupNames[gi])
    /\ gi' = gi + 1
    /\ pc' = AfterGroup
    /\ UNCHANGED <<doc, rtu, renap, bugs, result>>
    /\ UNCHANGED xmlVars
    /\ UNCHANGED <<fn, history>>
    /\ UNCHANGED thrVars

\* the except branch of a loop without a try of its own: the exception of a
\* group ends the loop
RunGroupRaisesAborts ==
    /\ pc = "groups"
    /\ GroupCall(gi, doc).raised
    /\ all_errors' = all_errors \o SystemFinding(gi)
    /\ gi' = gi + 1
    /\ pc' = "result"
    /\ UNCHANGED <<doc, rtu, renap, bugs, all_warnings, rules_applied, result>>
    /\ UNCHANGED xmlVars
    /\ UNCHANGED <<fn, history>>
    /\ UNCHANGED thrVars

\* an except branch that salvages what the group had collected
RunGroupRaisesKeepsFindings ==
    /\ pc = "groups"
    /\ GroupCall(gi, doc).raised
    /\ all_errors' = all_errors \o GroupErrors(GroupCall(gi, doc).errs, gi)
                                \o SystemFinding(gi)
    /\ all_warnings' = all_warnings \o GroupWarnings(GroupCall(gi, doc).errs, gi)
    /\ gi' = gi + 1
    /\ pc' = AfterGroup
    /\ UNCHANGED <<doc, rtu, renap, bugs, rules_applied, result>>
    /\ UNCHANGED xmlVars
    /\ UNCHANGED <<fn, history>>
    /\ UNCHANGED thrVars

\* one iteration of the loop, except branch
RunGroupRaises ==
    /\ pc = "groups"
    /\ GroupCall(gi, doc).raised
    /\ all_errors' = all_errors \o SystemFinding(gi)
    /\ gi' = gi + 1
    /\ pc' = AfterGroup
    /\ UNCHANGED <<doc, rtu, renap, bugs, all_warnings, rules_applied, result>>
    /\ UNCHANGED xmlVars
    /\ UNCHANGED <<fn, history>>
    /\ UNCHANGED thrVars

\* is_valid = len(all_errors) == 0; return BusinessValidationResult(...)
DteReturn ==
    /\ pc = "result"
    /\ result' = [returned |-> TRUE,
                  is_valid |-> Len(all_errors) = 0,
                  errors |-> all_errors,
                  warnings |-> all_warnings,
                  rules_applied |-> rules_applied,
                  dte_type |-> IF doc.encodable /\ doc.wellFormed
                               THEN doc.TipoDTE ELSE NoneV]
    /\ pc' = "done"
    /\ UNCHANGED <<doc, rtu, renap, bugs, gi, all_errors, all_warnings,
                   rules_applied>>
    /\ UNCHANGED xmlVars
    /\ UNCHANGED fn
    /\ UNCHANGED thrVars
    /\ history' = Append(history, [doc |-> doc, errors |-> all_errors,
                                    warnings |-> all_warnings])

-----------------------------------------------------------------------------
(* Schema cache: SchemaManager.  One schema name is modelled, GT_DOCUMENTO,    *)
(* the name get_schema_for_dte_type returns for every document.                *)

\* SchemaManager(cache_duration_hours = 24)
cache_duration_hours == 24

NoFile == [k |-> "missing", content |-> NoneV]
File(content) == [k |-> "file", content |-> content]

\* the .info file: "ok" holds the JSON object _download_schema writes;
\* "badjson" is a text json.load rejects or an object without a usable cached_at
\* (JSONDecodeError, KeyError, ValueError); "badtype" is JSON that is no object,
\* or whose cached_at is no string (TypeError); "unreadable" is a file open()
\* refuses (OSError)
NoInfo == [k |-> "missing", cached_at |-> 0, hash |-> NoneV]
Info(cached_at, hash) == [k |-> "ok", cached_at |-> cached_at, hash |-> hash]
BrokenInfo(kind) == [k |-> kind, cached_at |-> 0, hash |-> NoneV]

\* contents XMLSchema() parses
IsXsd(content) == content \in {"XSD_A", "XSD_B"}

\* _is_cache_valid: TRUE, FALSE, or "raise" for an exception that is none of
\* json.JSONDecodeError, KeyError, ValueError
_is_cache_valid ==
    CASE sidecar.k = "missing" -> Answer(FALSE)
      [] sidecar.k = "ok" -> Answer(now - sidecar.cached_at < cache_duration_hours)
      [] sidecar.k = "badjson" -> Answer(FALSE)
      [] OTHER -> Fails

\* _download_schema: its return value and the files it leaves
_download_schema ==
    CASE net = "ok" ->
            [ok |-> TRUE, blob |-> File("XSD_B"), sidecar |-> Info(now, "XSD_B")]
      [] net = "garbage" ->
            [ok |-> TRUE, blob |-> File("GARBAGE"), sidecar |-> Info(now, "GARBAGE")]
      \* requests.RequestException
      [] net = "fail" -> [ok |-> FALSE, blob |-> blob, sidecar |-> sidecar]
      \* IOError from open(cache_path, 'wb')
      [] net = "blob_open_fail" -> [ok |-> FALSE, blob |-> blob, sidecar |-> sidecar]
      \* IOError from f.write(response.content), after the file was truncated
      [] net = "blob_write_fail" ->
            [ok |-> FALSE, blob |-> File("PARTIAL"), sidecar |-> sidecar]
      \* IOError from open(cache_info_path, 'w')
      [] net = "info_open_fail" ->
            [ok |-> FALSE, blob |-> File("XSD_B"), sidecar |-> sidecar]
      \* IOError from json.dump, after the file was truncated
      [] OTHER ->
            [ok |-> FALSE, blob |-> File("XSD_B"), sidecar |-> BrokenInfo("badjson")]

LoadOutcome(raised, schema, b, s, memo) ==
    [raised |-> raised, schema |-> schema, blob |-> b, sidecar |-> s, schemas |-> memo]

\* XMLSchema(cache_path) and the memo update, on the files b and s
ParseSchema(b, s) ==
    IF b.k = "file" /\ IsXsd(b.content)
    THEN LoadOutcome(FALSE, b.content, b, s, b.content)
    ELSE LoadOutcome(FALSE, NoneV, b, s, schemas)

\* load_schema(schema_name), force_download = False
load_schema ==
    IF schemas # NoneV THEN LoadOutcome(FALSE, schemas, blob, sidecar, schemas)
    ELSE IF blob.k = "missing" THEN
        (IF _download_schema.ok
         THEN ParseSchema(_download_schema.blob, _download_schema.sidecar)
         ELSE LoadOutcome(FALSE, NoneV, _download_schema.blob,
                          _download_schema.sidecar, schemas))
    ELSE IF _is_cache_valid.raised
    THEN LoadOutcome(TRUE, NoneV, blob, sidecar, schemas)
    ELSE IF _is_cache_valid.val THEN ParseSchema(blob, sidecar)
    ELSE IF _download_schema.ok
    THEN ParseSchema(_download_schema.blob, _download_schema.sidecar)
    ELSE LoadOutcome(FALSE, NoneV, _download_schema.blob,
                     _download_schema.sidecar, schemas)

-----------------------------------------------------------------------------
(* validate_xml *)

ERROR == "ERROR"
WARNING == "WARNING"

_create_validation_error(code, level) == [code |-> code, level |-> level]

IsError(e) == e.level = ERROR
IsWarning(e) == e.level # ERROR

_validate_encoding(d) ==
    (IF d.xmlDecl = "noenc"
     THEN <<_create_validation_error("MISSING_ENCODING", WARNING)>> ELSE <<>>)
    \o (IF ~d.encodable
        THEN <<_create_validation_error("INVALID_ENCODING", ERROR)>> ELSE <<>>)

\* _parse_xml that reports a failed parse without an error entry
_parse_xml_silent(d) ==
    IF d.encodable /\ d.wellFormed THEN [root |-> TRUE, errors |-> <<>>]
    ELSE [root |-> FALSE, errors |-> <<>>]

\* _parse_xml: (root is not None, errors)
_parse_xml(d) ==
    IF d.encodable /\ d.wellFormed THEN [root |-> TRUE, errors |-> <<>>]
    ELSE [root |-> FALSE, errors |-> <<_create_validation_error("ERR_002", ERROR)>>]

_validate_basic_structure(d) ==
    (IF ~d.felNamespace
     THEN <<_create_validation_error("MISSING_NAMESPACE", WARNING)>> ELSE <<>>)
    \o (IF ~d.DatosEmision
        THEN <<_create_validation_error("MISSING_REQUIRED_ELEMENT", ERROR)>> ELSE <<>>)
    \o (IF ~d.Certificacion
        THEN <<_create_validation_error("MISSING_REQUIRED_ELEMENT", ERROR)>> ELSE <<>>)

_validate_against_schema(d) ==
    IF d.schemaValid THEN <<>>
    ELSE <<_create_validation_error("ERR_001", ERROR)>>

Verdict(is_valid, errors, warnings, schema_used) ==
    [kind |-> "verdict", is_valid |-> is_valid, errors |-> errors,
     warnings |-> warnings, schema_used |-> schema_used]

\* an exception that leaves validate_xml
Propagated == [kind |-> "exception", is_valid |-> FALSE, errors |-> <<>>,
               warnings |-> <<>>, schema_used |-> "unknown"]

NoXmlResult == [kind |-> "none", is_valid |-> FALSE, errors |-> <<>>,
                warnings |-> <<>>, schema_used |-> "unknown"]

\* what validate_xml(xml_content) gives its caller
XmlOutcome(d) ==
    LET encoding_errors == _validate_encoding(d)
        errors1 == SelectSeq(encoding_errors, IsError)
        warnings1 == SelectSeq(encoding_errors, IsWarning)
        parsed == _parse_xml(d)
        errors2 == errors1 \o parsed.errors
        structure_errors == _validate_basic_structure(d)
        errors3 == errors2 \o SelectSeq(structure_errors, IsError)
        warnings3 == warnings1 \o SelectSeq(structure_errors, IsWarning)
        loaded == load_schema
        errors4 == IF loaded.schema # NoneV
                   THEN errors3 \o _validate_against_schema(d)
                   ELSE Append(errors3,
                               _create_validation_error("SCHEMA_LOAD_ERROR", ERROR))
    IN IF ~parsed.root THEN Verdict(FALSE, errors2, warnings1, "unknown")
       ELSE IF loaded.raised THEN Propagated
       ELSE Verdict(Len(errors4) = 0, errors4, warnings3,
                    IF loaded.schema # NoneV THEN "GT_DOCUMENTO" ELSE "unknown")

MaxXmlCalls == 2

ValidateXml ==
    /\ pc = "idle"
    /\ xmlCalls < MaxXmlCalls
    /\ xmlCalls' = xmlCalls + 1
    /\ xmlResult' = XmlOutcome(doc)
    /\ IF _parse_xml(doc).root
       THEN /\ blob' = load_schema.blob
            /\ sidecar' = load_schema.sidecar
            /\ schemas' = load_schema.schemas
       ELSE UNCHANGED <<blob, sidecar, schemas>>
    /\ UNCHANGED <<doc, rtu, renap, bugs, net, now>>
    /\ UNCHANGED dteVars
    /\ UNCHANGED <<fn, history>>
    /\ UNCHANGED thrVars

StartHour == 24
TickHours == 12
MaxTicks == 1
MaxNow == StartHour + MaxTicks * TickHours

\* time passes between calls
Tick ==
    /\ pc = "idle"
    /\ now + TickHours <= MaxNow
    /\ now' = now + TickHours
    /\ UNCHANGED <<doc, rtu, renap, bugs, blob, sidecar, schemas, net, xmlCalls,
                   xmlResult>>
    /\ UNCHANGED dteVars
    /\ UNCHANGED <<fn, history>>
    /\ UNCHANGED thrVars

-----------------------------------------------------------------------------
(* Inputs *)

NitEmisor == <<"5", "7", "6", "9", "3", "7", "K">>
NitReceptor == <<"9", "8", "7", "6", "5", "4", "3", "4">>
NitInvalid == <<"1", "2", "3", "4", "5", "6", "7", "K">>
CuiValid == <<"1", "2", "3", "4", "5", "6", "7", "8", "2", "0", "1", "0", "1">>
CuiInvalid == <<"1", "2", "3", "4", "5", "6", "7", "8", "3", "0", "1", "0", "1">>

\* 550e8400-e29b-41d4-a716-446655440000
SampleUuid ==
    <<"5", "5", "0", "e", "8", "4", "0", "0", "-", "e", "2", "9", "b", "-",
      "4", "1", "d", "4", "-", "a", "7", "1", "6", "-",
      "4", "4", "6", "6", "5", "5", "4", "4", "0", "0", "0", "0">>

Item(cantidad, precio_unitario, precio, bien_servicio, total) ==
    [Cantidad |-> cantidad, PrecioUnitario |-> precio_unitario, Precio |-> precio,
     Descuento |-> Num(0), OtrosDescuento |-> NoNum,
     BienOServicio |-> bien_servicio, Total |-> total]

Iva(monto_gravable, codigo_unidad, monto_impuesto) ==
    [MontoGravable |-> monto_gravable, CodigoUnidadGravable |-> codigo_unidad,
     MontoImpuesto |-> monto_impuesto]

Frase(tipo, escenario) == [TipoFrase |-> tipo, CodigoEscenario |-> escenario]

\* A document no rule objects to: a FACT of one item of 10 x 100.00 with 12 % IVA,
\* not yet certified
DefaultDoc ==
    [encodable |-> TRUE, wellFormed |-> TRUE, xmlDecl |-> "enc",
     felNamespace |-> TRUE, DatosEmision |-> TRUE, Certificacion |-> TRUE,
     schemaValid |-> TRUE,
     TipoDTE |-> "FACT",
     FechaHoraEmision |-> Day(Ord(1, 15)),
     FechaHoraCertificacion |-> NoDate,
     NITEmisor |-> NitEmisor,
     CodigoEstablecimiento |-> "1",
     IDReceptor |-> NitReceptor,
     TipoEspecial |-> NoneV,
     Exp |-> FALSE,
     Exportacion |-> "absent",
     INCOTERM |-> NoneV,
     EspectaculoPublico |-> FALSE,
     EspectaculosPublicos |-> FALSE,
     Moneda |-> "GTQ",
     GranTotal |-> Num(100000),
     items |-> <<Item(Num(1000), Num(10000), Num(100000), "B", Num(100000))>>,
     taxes |-> <<Iva(Num(100000), Whole(1), Num(12000))>>,
     phrases |-> <<Frase(Whole(1), Whole(1))>>,
     ReferenciasNota |-> FALSE,
     NumeroAutorizacionDocumentoOrigen |-> NoId,
     SignatureEmisor |-> TRUE,
     SignatureCertificador |-> TRUE,
     NumeroAutorizacion |-> SampleUuid,
     Serie |-> generate_serie_from_uuid(SampleUuid),
     Numero |-> str_int(generate_numero_from_uuid(SampleUuid))]

\* A document with findings of both kinds in most groups: an exported public-show
\* credit note to a CUI receptor, unsigned, with wrong totals, serie and numero
MessyDoc ==
    [DefaultDoc EXCEPT
        !.TipoDTE = "NCRE",
        !.IDReceptor = CuiValid,
        !.TipoEspecial = "CUI",
        !.Exp = TRUE,
        !.EspectaculoPublico = TRUE,
        !.items = <<Item(Num(1000), Num(10000), Num(100500), "B", Num(100500)),
                    Item(Num(100), Num(5000), Num(5000), "S", Num(5000))>>,
        !.taxes = <<Iva(Num(100000), Whole(3), Num(12500)), Iva(NoNum, Whole(1), NoNum)>>,
        !.phrases = <<Frase(Whole(1), Whole(1)), Frase(Whole(4), Whole(9)),
                      Frase(Whole(4), Whole(4))>>,
        !.SignatureEmisor = FALSE,
        !.SignatureCertificador = FALSE,
        !.Serie = <<"A", "B", "C">>,
        !.Numero = <<"7">>]

MalformedDoc == [DefaultDoc EXCEPT !.wellFormed = FALSE]
UnencodableDoc == [DefaultDoc EXCEPT !.encodable = FALSE]

MockRtu == [exists |-> "mock", info |-> "mock", estab |-> "mock"]
AgentRtu == [exists |-> "yes", info |-> "agent", estab |-> "mock"]

FreshInfo == Info(6, "XSD_A")
StaleInfo == Info(0, "XSD_A")

Scenario(d, r, n, b, bl, sc, nt) ==
    [doc |-> d, rtu |-> r, renap |-> n, bugs |-> b, blob |-> bl, sidecar |-> sc,
     net |-> nt]

Groups == 1..NGroups

\* any subset of the groups failing, on two documents that parse, and the two
\* documents that do not
GeneralScenarios ==
    {Scenario(d, AgentRtu, "deceased", b, File("XSD_A"), FreshInfo, "ok") :
        d \in {DefaultDoc, MessyDoc}, b \in SUBSET Groups}
    \cup {Scenario(d, AgentRtu, "deceased", b, File("XSD_A"), FreshInfo, "ok") :
        d \in {MalformedDoc, UnencodableDoc}, b \in {{}, {1, 5}}}

\* every behaviour of the registries, on a NIT receptor and on a CUI receptor
RegistryScenarios ==
    {Scenario([DefaultDoc EXCEPT !.IDReceptor = id[1], !.TipoEspecial = id[2]],
              [exists |-> ex, info |-> inf, estab |-> es], rn, {},
              File("XSD_A"), FreshInfo, "ok") :
        id \in {<<NitReceptor, NoneV>>, <<CuiValid, "CUI">>, <<NitInvalid, NoneV>>},
        ex \in {"mock", "yes", "no", "raise"},
        inf \in {"mock", "inactive", "agent", "none", "raise"},
        es \in {"mock", "no", "raise"},
        rn \in {"mock", "notfound", "deceased", "raise"}}

NumTexts(n) == {Num(n), NoNum, BadNum}

\* present, missing and malformed field values, with registries that answer
DefectScenarios ==
    {Scenario([DefaultDoc EXCEPT
                  !.FechaHoraEmision = em,
                  !.FechaHoraCertificacion = ce,
                  !.GranTotal = gt,
                  !.IDReceptor = id,
                  !.items = <<Item(Num(1000), Num(10000), pr, "B", Num(100000))>>,
                  !.taxes = <<Iva(Num(100000), cu, mi)>>],
              MockRtu, "mock", {}, File("XSD_A"), FreshInfo, "ok") :
        em \in {Day(Ord(1, 15)), NoDate, BadDate},
        ce \in {Day(Ord(1, 16)), BadDate},
        gt \in NumTexts(100000),
        id \in {NitReceptor, CF},
        pr \in NumTexts(100000),
        cu \in {Whole(1), BadNum},
        mi \in NumTexts(12000)}

\* last day number of the emission dates tried: 2024-03-06
MaxDay == 66

CertificationDays == {Ord(1, 7), Ord(1, 31), Ord(2, 1), Ord(2, 29)}

\* pairs of emission and certification dates, per document type
DateScenarios ==
    {Scenario([DefaultDoc EXCEPT
                  !.TipoDTE = t,
                  !.FechaHoraEmision = Day(em),
                  !.FechaHoraCertificacion = Day(ce)],
              MockRtu, "mock", {}, File("XSD_A"), FreshInfo, "ok") :
        t \in {"FACT", "CIVA", "CAIS"},
        em \in 1..MaxDay,
        ce \in CertificationDays}

\* receptor CF or a NIT, around the CF limit, per currency and document type
CfScenarios ==
    {Scenario([DefaultDoc EXCEPT
                  !.IDReceptor = id,
                  !.Moneda = mo,
                  !.TipoDTE = t,
                  !.GranTotal = Num(gt),
                  !.FechaHoraCertificacion = ce,
                  !.items = <<Item(Num(100), Num(gt), Num(gt), "B", Num(gt))>>],
              MockRtu, "mock", {}, File("XSD_A"), FreshInfo, "ok") :
        id \in {CF, NitReceptor},
        mo \in {"GTQ", "USD", NoneV},
        t \in {"FACT", "FCAE", "NCRE", "FESP"},
        gt \in {100000, MAX_CF_AMOUNT_GTQ - 1, MAX_CF_AMOUNT_GTQ, MAX_CF_AMOUNT_GTQ + 1},
        ce \in {NoDate, Day(Ord(1, 16))}}

\* the XML-level properties of the input text
XmlDocScenarios ==
    {Scenario([DefaultDoc EXCEPT
                  !.encodable = en, !.wellFormed = wf, !.xmlDecl = xd,
                  !.felNamespace = ns, !.DatosEmision = de, !.Certificacion = ct,
                  !.schemaValid = sv],
              MockRtu, "mock", {}, bl, FreshInfo, "ok") :
        en \in BOOLEAN, wf \in BOOLEAN, xd \in {"enc", "noenc", "none"},
        ns \in BOOLEAN, de \in BOOLEAN, ct \in BOOLEAN, sv \in BOOLEAN,
        bl \in {File("XSD_A"), NoFile}}

\* every state of the on-disk cache and every outcome of a download
CacheScenarios ==
    {Scenario(d, MockRtu, "mock", {}, bl, sc, nt) :
        d \in {DefaultDoc, [DefaultDoc EXCEPT !.schemaValid = FALSE]},
        bl \in {NoFile, File("XSD_A"), File("GARBAGE"), File("PARTIAL")},
        sc \in {NoInfo, FreshInfo, StaleInfo, BrokenInfo("badjson"),
                BrokenInfo("badtype"), BrokenInfo("unreadable")},
        nt \in {"ok", "garbage", "fail", "blob_open_fail", "blob_write_fail",
                "info_open_fail", "info_write_fail"}}

\* exports and non-exports to a NIT, a bad NIT and a CUI, without an Exportacion element, with one that has
\* text, and with one whose first node is a child element (its .text is None)
ExportScenarios ==
    {Scenario([DefaultDoc EXCEPT
                  !.TipoDTE = t,
                  !.Exp = ex,
                  !.Exportacion = co,
                  !.INCOTERM = IF co = "absent" THEN NoneV ELSE "FOB",
                  !.IDReceptor = id[1],
                  !.TipoEspecial = id[2],
                  !.FechaHoraCertificacion = ce],
              MockRtu, "mock", {}, File("XSD_A"), FreshInfo, "ok") :
        t \in {"FACT", "NDEB", "NCRE", "FESP"},
        ex \in BOOLEAN,
        id \in {<<NitReceptor, NoneV>>, <<NitInvalid, NoneV>>, <<CuiValid, "CUI">>},
        co \in {"absent", "text", "notext"},
        ce \in {NoDate, Day(Ord(1, 16))}}

\* public-show documents of zero to three items
PublicShowScenarios ==
    {Scenario([DefaultDoc EXCEPT
                  !.EspectaculoPublico = TRUE,
                  !.EspectaculosPublicos = co,
                  !.GranTotal = Num(n * 5000),
                  !.items = [i \in 1..n |->
                                Item(Num(100), Num(5000), Num(5000), "S", Num(5000))]],
              MockRtu, "mock", {}, File("XSD_A"), FreshInfo, "ok") :
        n \in 0..3, co \in BOOLEAN}

\* one phrase of type 1 or 4, with scenarios in and outside the exemption table,
\* on document types the table allows and forbids, for both ISR affiliations
PhraseScenarios ==
    {Scenario([DefaultDoc EXCEPT
                  !.TipoDTE = t,
                  !.phrases = <<Frase(Whole(tf), Whole(ce))>>],
              r, "mock", {}, File("XSD_A"), FreshInfo, "ok") :
        t \in {"FACT", "NCRE", "RDON"},
        tf \in {1, 4},
        ce \in {1, 2, 3, 4, 9},
        r \in {MockRtu, AgentRtu}}

Scenarios ==
    GeneralScenarios \cup RegistryScenarios \cup DefectScenarios \cup DateScenarios
    \cup CfScenarios \cup XmlDocScenarios \cup CacheScenarios
    \cup ExportScenarios \cup PublicShowScenarios \cup PhraseScenarios

-----------------------------------------------------------------------------
(* Direct calls of the rule functions and of the format predicates *)

NoCall == [op |-> "none", f |-> NoneV, arg |-> NoneV, out |-> NoneV]
Input(f, arg) == [op |-> "input", f |-> f, arg |-> arg, out |-> NoneV]
Output(f, arg, out) == [op |-> "output", f |-> f, arg |-> arg, out |-> out]

\* IVA entries around 12 % of 1000.00, of 1000 and of 0.50
IvaInputs ==
    {Input("_validate_iva_tax", Iva(mg, cu, mi)) :
        mg \in {Dec(100000, 2), Dec(1000, 0), Dec(50, 2), NoNum},
        cu \in {Whole(1), Whole(2), Whole(3), NoNum},
        mi \in {Num(12000), Num(12100), Num(12001), Num(11999), Num(11900),
                Num(6), Num(7), Num(8), Num(0), Dec(120, 0), NoNum}}

CallValidateIvaTax ==
    /\ fn.op = "input" /\ fn.f = "_validate_iva_tax"
    /\ fn' = Output(fn.f, fn.arg,
                    _validate_iva_tax([DefaultDoc EXCEPT !.taxes = <<fn.arg>>]))
    /\ UNCHANGED <<doc, rtu, renap, bugs>>
    /\ UNCHANGED dteVars
    /\ UNCHANGED xmlVars
    /\ UNCHANGED history
    /\ UNCHANGED thrVars

\* items whose quantity x unit price has up to six decimals, priced around it
ItemInputs ==
    {Input("_validate_single_item", Item(q, up, pr, "B", pr)) :
        q \in {Dec(15, 1), Dec(14, 1), Dec(1000, 2), Whole(3), NoNum},
        up \in {Dec(1, 2), Dec(10000, 2), Dec(300, 2), Dec(15, 3)},
        pr \in {Num(0), Num(1), Num(2), Num(3), Num(4), Num(99), Num(100),
                Num(101), Num(102), Num(30000), Num(100000), Num(100001),
                Num(100002), NoNum}}
    \cup {Input("_validate_single_item", Item(Dec(333333, 6), up, pr, "S", pr)) :
            up \in {Whole(3), Dec(30, 1), Dec(15, 1)},
            pr \in {Num(49), Num(50), Num(51), Num(52), Num(98), Num(99),
                    Num(100), Num(101), Num(102)}}

CallValidateSingleItem ==
    /\ fn.op = "input" /\ fn.f = "_validate_single_item"
    /\ fn' = Output(fn.f, fn.arg, _validate_single_item(fn.arg, DefaultDoc))
    /\ UNCHANGED <<doc, rtu, renap, bugs>>
    /\ UNCHANGED dteVars
    /\ UNCHANGED xmlVars
    /\ UNCHANGED history
    /\ UNCHANGED thrVars

\* documents of zero to two items, with a grand total at, near and far from
\* the sum of the items' totals
TotalsInputs ==
    LET totals == NumTexts(5000) \cup {Num(10000), Dec(50, 0)}
    IN {Input("validate_totals",
              [DefaultDoc EXCEPT !.GranTotal = gt, !.IDReceptor = id, !.items = its]) :
           gt \in {Num(0), Num(1), Num(2), Num(4999), Num(5000), Num(9998),
                   Num(9999), Num(10000), Num(10001), Num(10002), Num(15000),
                   Dec(100, 0), Dec(100005, 3), Dec(100011, 3), Num(250000),
                   NoNum, BadNum},
           id \in {NitReceptor, CF},
           its \in {<<>>}
                   \cup {<<Item(Num(100), t, t, "B", t)>> : t \in totals}
                   \cup {<<Item(Num(100), t, t, "B", t),
                           Item(Num(100), u, u, "S", u)>> :
                           t \in totals, u \in totals}}

CallValidateTotals ==
    /\ fn.op = "input" /\ fn.f = "validate_totals"
    /\ fn' = Output(fn.f, fn.arg, validate_totals(fn.arg))
    /\ UNCHANGED <<doc, rtu, renap, bugs>>
    /\ UNCHANGED dteVars
    /\ UNCHANGED xmlVars
    /\ UNCHANGED history
    /\ UNCHANGED thrVars






\* version 4 UUID texts, in lower, upper and mixed case
UuidTexts ==
    LET node == <<"4", "4", "6", "6", "5", "5", "4", "4", "0", "0", "0", "0">>
    IN {a \o <<"-">> \o b \o <<"-">> \o c \o <<"-">> \o e \o <<"-">> \o node :
           a \in {<<"5", "5", "0", "e", "8", "4", "0", "0">>,
                 <<"5", "5", "0", "E", "8", "4", "0", "0">>,
                 <<"A", "b", "C", "d", "E", "f", "1", "2">>,
                 <<"0", "0", "0", "0", "0", "0", "0", "0">>},
           b \in {<<"e", "2", "9", "b">>,
                 <<"E", "2", "9", "B">>,
                 <<"0", "0", "0", "0">>,
                 <<"3", "b", "9", "a">>,
                 <<"F", "f", "F", "f">>},
           c \in {<<"4", "1", "d", "4">>,
                 <<"4", "0", "0", "0">>,
                 <<"4", "F", "F", "F">>},
           e \in {<<"a", "7", "1", "6">>,
                 <<"8", "0", "0", "0">>,
                 <<"B", "7", "1", "6">>}}

\* texts of the right length that are not version 4 UUIDs
NotUuidTexts ==
    {[SampleUuid EXCEPT ![15] = "1"], [SampleUuid EXCEPT ![20] = "c"],
     [SampleUuid EXCEPT ![36] = "g"]}

\* the Serie a document carries
SerieOf(u, choice) ==
    CASE choice = "derived" -> generate_serie_from_uuid(u)
      [] choice = "as_written" -> SubSeq(RemoveHyphens(u), 1, 8)
      [] choice = "other" -> <<"A", "B", "C">>
      [] choice = "none" -> NoId

\* the Numero a document carries
NumeroOf(u, choice) ==
    CASE choice = "derived" -> str_int(generate_numero_from_uuid(u))
      [] choice = "spec" -> str_int(809938325)
      [] choice = "padded" -> <<"0", "0", "7">>
      [] choice = "decimal" -> <<"7", ".", "0">>
      [] choice = "none" -> NoId

\* documents carrying the derived serie and numero of their UUID, or others
UuidInputs ==
    {Input("validate_uuid_format",
           [DefaultDoc EXCEPT !.NumeroAutorizacion = u, !.Serie = SerieOf(u, sr),
                              !.Numero = NumeroOf(u, nm)]) :
        u \in UuidTexts \cup NotUuidTexts,
        sr \in {"derived", "as_written", "other", "none"},
        nm \in {"derived", "spec", "padded", "decimal", "none"}}
    \cup {Input("validate_uuid_format",
                [DefaultDoc EXCEPT !.NumeroAutorizacion = NoId, !.Serie = sr,
                                   !.Numero = <<"7">>]) :
            sr \in {NoId, <<"A", "B", "C">>}}

CallValidateUuidFormat ==
    /\ fn.op = "input" /\ fn.f = "validate_uuid_format"
    /\ fn' = Output(fn.f, fn.arg, validate_uuid_format(fn.arg))
    /\ UNCHANGED <<doc, rtu, renap, bugs>>
    /\ UNCHANGED dteVars
    /\ UNCHANGED xmlVars
    /\ UNCHANGED history
    /\ UNCHANGED thrVars

\* CUI texts: every digit at positions 1, 8 and 9, and texts CUI_PATTERN
\* does not match
CuiInputs ==
    {Input("validate_cui",
           <<DigitChars[a], "0", "0", "0", DigitChars[b], "0", "0", DigitChars[c],
             DigitChars[v], "0", "1", "0", "1">>) :
        a \in 1..10, b \in {1, 4}, c \in 1..10, v \in 1..10}
    \cup {Input("validate_cui", SubSeq(CuiValid, 1, 12)),
          Input("validate_cui", [CuiValid EXCEPT ![13] = "K"]),
          Input("validate_cui", CuiValid), Input("validate_cui", CuiInvalid)}

CallValidateCui ==
    /\ fn.op = "input" /\ fn.f = "validate_cui"
    /\ fn' = Output(fn.f, fn.arg, validate_cui(fn.arg))
    /\ UNCHANGED <<doc, rtu, renap, bugs>>
    /\ UNCHANGED dteVars
    /\ UNCHANGED xmlVars
    /\ UNCHANGED history
    /\ UNCHANGED thrVars

\* twelve-digit texts whose leading parts serve as numeric prefixes
NitDigits ==
    {<<"9", "8", "7", "6", "5", "4", "3", "2", "1", "0", "9", "8">>,
     <<"5", "7", "6", "9", "3", "7", "0", "0", "0", "4", "1", "5">>,
     <<"1", "0", "0", "0", "0", "0", "0", "0", "0", "0", "0", "9">>}

\* numeric prefixes of 0 to 13 digits
NitPrefixes ==
    {<<>>}
    \cup {<<DigitChars[a]>> : a \in 1..10}
    \cup {<<DigitChars[a], DigitChars[b]>> : a \in 1..10, b \in 1..10}
    \cup {SubSeq(s, 1, n) : s \in NitDigits, n \in 3..12}
    \cup {Append(s, "7") : s \in NitDigits}

\* NIT texts, and the text CF
NitInputs ==
    {Input("validate_nit", Append(p, t)) :
        p \in NitPrefixes,
        t \in {DigitChars[i] : i \in 1..10} \cup {"K", "k", "X"}}
    \cup {Input("validate_nit", CF), Input("validate_nit", NoId)}

CallValidateNit ==
    /\ fn.op = "input" /\ fn.f = "validate_nit"
    /\ fn' = Output(fn.f, fn.arg, validate_nit(fn.arg))
    /\ UNCHANGED <<doc, rtu, renap, bugs>>
    /\ UNCHANGED dteVars
    /\ UNCHANGED xmlVars
    /\ UNCHANGED history
    /\ UNCHANGED thrVars

FnInputs ==
    IvaInputs \cup ItemInputs \cup TotalsInputs \cup UuidInputs \cup CuiInputs
    \cup NitInputs

InitFn ==
    /\ doc = DefaultDoc /\ rtu = MockRtu /\ renap = "mock" /\ bugs = {}
    /\ blob = File("XSD_A") /\ sidecar = FreshInfo /\ net = "ok"
    /\ pc = "idle" /\ gi = 1
    /\ all_errors = <<>> /\ all_warnings = <<>> /\ rules_applied = <<>>
    /\ result = NoResult
    /\ schemas = NoneV /\ now = StartHour /\ xmlCalls = 0
    /\ xmlResult = NoXmlResult
    /\ fn \in FnInputs
    /\ history = <<>>
    /\ threads = [t \in Threads |-> Idle]
    /\ parses = <<>>

NextFn ==
    \/ CallValidateIvaTax
    \/ CallValidateSingleItem
    \/ CallValidateTotals
    \/ CallValidateUuidFormat
    \/ CallValidateCui
    \/ CallValidateNit

SpecFn == InitFn /\ [][NextFn]_vars

-----------------------------------------------------------------------------
(* Specification *)

Init ==
    /\ \E sc \in Scenarios :
          /\ doc = sc.doc
          /\ rtu = sc.rtu
          /\ renap = sc.renap
          /\ bugs = sc.bugs
          /\ blob = sc.blob
          /\ sidecar = sc.sidecar
          /\ net = sc.net
    /\ pc = "idle"
    /\ gi = 1
    /\ all_errors = <<>>
    /\ all_warnings = <<>>
    /\ rules_applied = <<>>
    /\ result = NoResult
    /\ schemas = NoneV
    /\ now = StartHour
    /\ xmlCalls = 0
    /\ xmlResult = NoXmlResult
    /\ fn = NoCall
    /\ history = <<>>
    /\ threads = [t \in Threads |-> Idle]
    /\ parses = <<>>

Next ==
    \/ DteParseOk
    \/ DteParseFails
    \/ RunGroupReturns
    \/ RunGroupRaises
    \/ DteReturn
    \/ ValidateXml
    \/ Tick

Spec == Init /\ [][Next]_vars

-----------------------------------------------------------------------------
(* Repeated calls: validate_dte invoked again on the same BusinessValidator,   *)
(* with the registries answering as before.                                    *)

MaxDteCalls == 3

\* the documents of the repeated calls
AgainDocs ==
    {DefaultDoc, MessyDoc, MalformedDoc,
     [DefaultDoc EXCEPT !.Exp = TRUE, !.IDReceptor = NitInvalid]}

\* a validate_dte whose three lists outlive the call
DteCallAgainKeepsLists(d) ==
    /\ pc = "done"
    /\ Len(history) < MaxDteCalls
    /\ doc' = d
    /\ pc' = "idle"
    /\ gi' = 1
    /\ result' = NoResult
    /\ UNCHANGED <<all_errors, all_warnings, rules_applied>>
    /\ UNCHANGED <<rtu, renap, bugs>>
    /\ UNCHANGED xmlVars
    /\ UNCHANGED <<fn, history>>
    /\ UNCHANGED thrVars

\* def validate_dte(self, xml_content): all_errors = []; all_warnings = [];
\* rules_applied = []  -- the lists are locals of the call
DteCallAgain(d) ==
    /\ pc = "done"
    /\ Len(history) < MaxDteCalls
    /\ doc' = d
    /\ pc' = "idle"
    /\ gi' = 1
    /\ result' = NoResult
    /\ all_errors' = <<>>
    /\ all_warnings' = <<>>
    /\ rules_applied' = <<>>
    /\ UNCHANGED <<rtu, renap, bugs>>
    /\ UNCHANGED xmlVars
    /\ UNCHANGED <<fn, history>>
    /\ UNCHANGED thrVars

DteAgain == \E d \in AgainDocs : DteCallAgain(d)

InitAgain ==
    /\ doc \in AgainDocs
    /\ rtu \in {MockRtu, AgentRtu}
    /\ renap = "mock"
    /\ bugs \in {{}, {3}}
    /\ blob = File("XSD_A") /\ sidecar = FreshInfo /\ net = "ok"
    /\ pc = "idle"
    /\ gi = 1
    /\ all_errors = <<>>
    /\ all_warnings = <<>>
    /\ rules_applied = <<>>
    /\ result = NoResult
    /\ schemas = NoneV
    /\ now = StartHour
    /\ xmlCalls = 0
    /\ xmlResult = NoXmlResult
    /\ fn = NoCall
    /\ history = <<>>
    /\ threads = [t \in Threads |-> Idle]
    /\ parses = <<>>

NextAgain ==
    \/ DteParseOk
    \/ DteParseFails
    \/ RunGroupReturns
    \/ RunGroupRaises
    \/ DteReturn
    \/ DteAgain
    \/ ValidateXml
    \/ Tick

SpecAgain == InitAgain /\ [][NextAgain]_vars

-----------------------------------------------------------------------------
(* Concurrent calls: load_schema(name) run by several threads of one process   *)
(* on one SchemaManager, each statement that touches the memo or a file one    *)
(* step.  load_schema and _download_schema take no lock and write in place.    *)

outsideCache == <<doc, rtu, renap, bugs, pc, gi, all_errors, all_warnings,
                  rules_applied, result, net, now, xmlCalls, xmlResult, fn,
                  history>>

Goto(t, where, schema) == threads' = [threads EXCEPT ![t] = At(where, schema)]

\* if schema_name in self.schemas and not force_download:
\*     return self.schemas[schema_name]
LoadMemoLookup(t) ==
    /\ threads[t].at = "idle"
    /\ IF schemas # NoneV THEN Goto(t, "done", schemas)
       ELSE Goto(t, "check", NoneV)
    /\ UNCHANGED <<blob, sidecar, schemas, parses>>
    /\ UNCHANGED outsideCache

\* if ... not os.path.exists(cache_path) or not self._is_cache_valid(name):
LoadCheckCache(t) ==
    /\ threads[t].at = "check"
    /\ IF blob.k = "missing" THEN Goto(t, "get", NoneV)
       ELSE IF _is_cache_valid.raised THEN Goto(t, "raised", NoneV)
       ELSE IF _is_cache_valid.val THEN Goto(t, "parse", NoneV)
       ELSE Goto(t, "get", NoneV)
    /\ UNCHANGED <<blob, sidecar, schemas, parses>>
    /\ UNCHANGED outsideCache

\* response = requests.get(url, timeout=30); response.raise_for_status()
\* except requests.RequestException: return False -> load_schema returns None
DownloadGet(t) ==
    /\ threads[t].at = "get"
    /\ IF net = "fail" THEN Goto(t, "done", NoneV)
       ELSE Goto(t, "open_blob", NoneV)
    /\ UNCHANGED <<blob, sidecar, schemas, parses>>
    /\ UNCHANGED outsideCache

\* open(cache_path, 'wb'): the file is created, or truncated where it is
DownloadOpenBlob(t) ==
    /\ threads[t].at = "open_blob"
    /\ blob' = File("PARTIAL")
    /\ Goto(t, "write_blob", NoneV)
    /\ UNCHANGED <<sidecar, schemas, parses>>
    /\ UNCHANGED outsideCache

\* f.write(response.content), and the file is closed
DownloadWriteBlob(t) ==
    /\ threads[t].at = "write_blob"
    /\ blob' = File(IF net = "garbage" THEN "GARBAGE" ELSE "XSD_B")
    /\ Goto(t, "write_info", NoneV)
    /\ UNCHANGED <<sidecar, schemas, parses>>
    /\ UNCHANGED outsideCache

\* with open(cache_info_path, 'w') as f: json.dump(cache_info, f)
DownloadWriteInfo(t) ==
    /\ threads[t].at = "write_info"
    /\ sidecar' = Info(now, IF net = "garbage" THEN "GARBAGE" ELSE "XSD_B")
    /\ Goto(t, "parse", NoneV)
    /\ UNCHANGED <<blob, schemas, parses>>
    /\ UNCHANGED outsideCache

\* schema = XMLSchema(cache_path): reads the file that is at the path now;
\* except XMLSchemaException / Exception: return None
LoadParse(t) ==
    /\ threads[t].at = "parse"
    /\ parses' = Append(parses, blob.content)
    /\ IF blob.k = "file" /\ IsXsd(blob.content)
       THEN Goto(t, "memo", blob.content)
       ELSE Goto(t, "done", NoneV)
    /\ UNCHANGED <<blob, sidecar, schemas>>
    /\ UNCHANGED outsideCache

\* self.schemas[schema_name] = schema; return schema
LoadMemoize(t) ==
    /\ threads[t].at = "memo"
    /\ schemas' = threads[t].schema
    /\ Goto(t, "done", threads[t].schema)
    /\ UNCHANGED <<blob, sidecar, parses>>
    /\ UNCHANGED outsideCache

InitThreads ==
    /\ doc = DefaultDoc /\ rtu = MockRtu /\ renap = "mock" /\ bugs = {}
    /\ \E entry \in {<<NoFile, NoInfo>>, <<File("XSD_A"), FreshInfo>>,
                      <<File("XSD_A"), StaleInfo>>,
                      <<File("XSD_A"), BrokenInfo("badtype")>>} :
          blob = entry[1] /\ sidecar = entry[2]
    /\ net \in {"ok", "garbage", "fail"}
    /\ pc = "idle"
    /\ gi = 1
    /\ all_errors = <<>>
    /\ all_warnings = <<>>
    /\ rules_applied = <<>>
    /\ result = NoResult
    /\ schemas = NoneV
    /\ now = StartHour
    /\ xmlCalls = 0
    /\ xmlResult = NoXmlResult
    /\ fn = NoCall
    /\ history = <<>>
    /\ threads = [t \in Threads |-> Idle]
    /\ parses = <<>>

NextThreads ==
    \E t \in Threads :
        \/ LoadMemoLookup(t)
        \/ LoadCheckCache(t)
        \/ DownloadGet(t)
        \/ DownloadOpenBlob(t)
        \/ DownloadWriteBlob(t)
        \/ DownloadWriteInfo(t)
        \/ LoadParse(t)
        \/ LoadMemoize(t)

SpecThreads == InitThreads /\ [][NextThreads]_vars

-----------------------------------------------------------------------------
(* Properties *)

\* etree.fromstring succeeded in validate_dte
DocParsed == doc.encodable /\ doc.wellFormed

Codes(findings) == {findings[i].code : i \in 1..Len(findings)}

\* the findings of the list that group g produced
OfGroup(findings, g) == SelectSeq(findings, LAMBDA e : e.grp = g)

\* a finding with this code and severity is in the verdict of validate_dte
Returned(rule_code, severity) ==
    \/ \E i \in 1..Len(result.errors) :
          result.errors[i].code = rule_code /\ result.errors[i].severity = severity
    \/ \E i \in 1..Len(result.warnings) :
          result.warnings[i].code = rule_code /\ result.warnings[i].severity = severity

ReturnedCodes == Codes(result.errors) \cup Codes(result.warnings)

SystemCodeSet == {SystemCodes[g] : g \in Groups} \cup {"SYSTEM_ERROR"}

\* no call to a registry fails
RegistriesAnswer ==
    /\ rtu.exists # "raise" /\ rtu.info # "raise" /\ rtu.estab # "raise"
    /\ renap # "raise"

\* C1: in every verdict returned by validate_dte and by validate_xml, is_valid
\* is true if and only if the errors list is empty.
C1_ValidIffNoErrors ==
    /\ result.returned => (result.is_valid <=> result.errors = <<>>)
    /\ xmlResult.kind = "verdict" => (xmlResult.is_valid <=> xmlResult.errors = <<>>)

\* C1 witness: both operations stopped at a document that does not parse and
\* returned an invalid verdict holding the parse error.
C1_Witness ==
    /\ result.returned /\ ~result.is_valid
    /\ "XML_PARSE_ERROR" \in Codes(result.errors)
    /\ xmlResult.kind = "verdict" /\ ~xmlResult.is_valid
    /\ xmlResult.errors # <<>>

\* C2: for every group that raises, the verdict holds exactly one finding of
\* that group, SYSTEM_<GROUP> with severity REJECT, and for every other group,
\* whether before or after a group that raised, exactly the findings that group
\* returned, whatever subset of the groups raises.
C2_GroupsNeverAbort ==
    (result.returned /\ DocParsed) =>
        \A g \in Groups :
            IF GroupCall(g, doc).raised
            THEN /\ OfGroup(result.errors, g) = SystemFinding(g)
                 /\ OfGroup(result.warnings, g) = <<>>
            ELSE /\ OfGroup(result.errors, g)
                      = GroupErrors(validation_func(g, doc).errs, g)
                 /\ OfGroup(result.warnings, g)
                      = GroupWarnings(validation_func(g, doc).errs, g)

\* C2 witness: the first and the fifth group raised, and findings of a group
\* after each of them are in the verdict.
C2_Witness ==
    /\ result.returned /\ DocParsed
    /\ GroupCall(1, doc).raised /\ GroupCall(5, doc).raised
    /\ "SYSTEM_GENERAL_PART_1" \in Codes(result.errors)
    /\ "SYSTEM_COMPLEMENTS" \in Codes(result.errors)
    /\ "2.3.1.1" \in Codes(result.errors)
    /\ "3.12.1.1" \in Codes(result.errors)
    /\ "2.6.1.7" \in Codes(result.warnings)

\* (group, index) of f is at most that of g
NotAfter(f, g) == f.grp < g.grp \/ (f.grp = g.grp /\ f.idx <= g.idx)

OrderedByGroup(findings) ==
    \A i \in 1..Len(findings) : \A j \in 1..Len(findings) :
        i < j => NotAfter(findings[i], findings[j])

\* every finding is what its group emitted at its index, or the group's SYSTEM
\* finding
TagsAreEmissions(findings) ==
    \A i \in 1..Len(findings) :
        LET f == findings[i]
        IN IF GroupCall(f.grp, doc).raised THEN f.code = SystemCodes[f.grp]
           ELSE /\ f.idx \in 1..Len(validation_func(f.grp, doc).errs)
                /\ f.code = validation_func(f.grp, doc).errs[f.idx].code

\* C4: in each list of the verdict of validate_dte, the findings are ordered by
\* the index of their group in the fixed order and, within a group, by the order
\* in which the group emitted them; a SYSTEM_<GROUP> finding stands at the
\* position of its group.
C4_OrderedByGroupThenEmission ==
    (result.returned /\ DocParsed) =>
        /\ OrderedByGroup(result.errors)
        /\ OrderedByGroup(result.warnings)
        /\ TagsAreEmissions(result.errors)
        /\ TagsAreEmissions(result.warnings)

\* C4 witness: a verdict with several findings of one group, findings of groups
\* on both sides of a SYSTEM finding, and warnings of two groups.
C4_Witness ==
    /\ result.returned /\ DocParsed
    /\ Len(OfGroup(result.errors, 1)) >= 2
    /\ OfGroup(result.errors, 3) = SystemFinding(3)
    /\ Len(OfGroup(result.errors, 7)) >= 2
    /\ OfGroup(result.warnings, 1) # <<>>
    /\ Len(OfGroup(result.warnings, 4)) >= 2

\* C3: every call of validate_dte and of validate_xml that has finished has
\* returned a verdict; none has let an exception out, whatever the document, the
\* registries and the files of the schema cache.
C3_NoExceptionEscapes ==
    /\ pc = "done" => result.returned
    /\ xmlCalls > 0 => xmlResult.kind = "verdict"

\* a registry call that validate_dte makes on this document fails
RegistryCallFails ==
    \/ doc.NITEmisor # NoId /\ rtu.exists = "raise"
    \/ doc.NITEmisor # NoId /\ rtu.exists \in {"mock", "yes"} /\ rtu.info = "raise"

\* C5: when a registry call made by a rule group fails, the verdict holds a
\* REJECT finding REGISTRY_UNAVAILABLE, and when the registry answers that the
\* NIT of the emisor does not exist, the verdict holds 2.2.2.1 instead.
C5_RegistryUnavailable ==
    (result.returned /\ DocParsed /\ bugs = {}) =>
        /\ RegistryCallFails => Returned("REGISTRY_UNAVAILABLE", REJECT)
        /\ (doc.NITEmisor # NoId /\ validate_nit(doc.NITEmisor) /\ rtu.exists = "no")
              => /\ Returned("2.2.2.1", REJECT)
                 /\ ~Returned("REGISTRY_UNAVAILABLE", REJECT)

\* the text of a numeric field is there and is not a number
NonNumeric(x) == x.k = "bad"

\* C6: for a well-formed document and registries that answer, no finding of the
\* verdict has a SYSTEM_ code; a non-numeric item amount yields 2.3.5.0, a
\* non-numeric IVA field 2.7.0 and a non-numeric GranTotal 2.19.2.0.
C6_NoSystemFindingOnWellFormed ==
    (result.returned /\ DocParsed /\ bugs = {} /\ RegistriesAnswer) =>
        /\ ReturnedCodes \cap SystemCodeSet = {}
        /\ (\E i \in 1..Len(doc.items) : NonNumeric(doc.items[i].Precio))
              => Returned("2.3.5.0", REJECT)
        /\ (\E i \in 1..Len(doc.taxes) :
               \/ NonNumeric(doc.taxes[i].MontoGravable)
               \/ NonNumeric(doc.taxes[i].CodigoUnidadGravable)
               \/ NonNumeric(doc.taxes[i].MontoImpuesto))
              => Returned("2.7.0", REJECT)
        /\ NonNumeric(doc.GranTotal) => Returned("2.19.2.0", REJECT)

\* both timestamps of the document parse
BothDatesParse ==
    doc.FechaHoraEmision.k = "dt" /\ doc.FechaHoraCertificacion.k = "dt"

\* the verdict of a call on a parsed document in which nothing failed from
\* outside: no injected fault, no failing registry
UndisturbedVerdict ==
    result.returned /\ DocParsed /\ bugs = {} /\ RegistriesAnswer

\* C7: with both timestamps parseable, a document of a type other than CIVA and
\* CAIS gets the INFORM_ERROR finding 2.2.1.1 exactly when the certification date
\* is more than 5 days after the emission date; CIVA and CAIS never get it.
C7_LateCertification ==
    (UndisturbedVerdict /\ BothDatesParse) =>
        IF doc.TipoDTE \in {"CIVA", "CAIS"}
        THEN "2.2.1.1" \notin ReturnedCodes
        ELSE Returned("2.2.1.1", INFORM_ERROR)
                <=> doc.FechaHoraCertificacion.v - doc.FechaHoraEmision.v > 5

\* C8: with both timestamps parseable, finding 2.2.1.2 is in the verdict exactly
\* when the emission date is after the last day of the month of certification.
C8_EmissionAfterCertificationMonth ==
    (UndisturbedVerdict /\ BothDatesParse) =>
        ("2.2.1.2" \in ReturnedCodes
            <=> doc.FechaHoraEmision.v > LastOfMonth(doc.FechaHoraCertificacion.v))

\* C9: a document with receptor CF, currency GTQ and an invoice-class type gets
\* the REJECT finding 2.2.4.11 exactly when its grand total is 2500.00 or more.
C9_CfLimitGtq ==
    (UndisturbedVerdict /\ doc.IDReceptor = CF /\ doc.Moneda = "GTQ"
        /\ doc.TipoDTE \in InvoiceClass /\ doc.GranTotal.k = "num") =>
        (Returned("2.2.4.11", REJECT) <=> doc.GranTotal.v >= MAX_CF_AMOUNT_GTQ)

\* C10: a document with receptor CF and a currency other than GTQ gets none of
\* the CF-limit REJECT findings 2.2.4.11, 2.2.7.2 and 2.19.2.4, and its verdict
\* holds an INFORM_WARNING finding for the skipped check.
C10_CfLimitSkippedOffGtq ==
    (UndisturbedVerdict /\ doc.IDReceptor = CF /\ doc.Moneda \notin {"GTQ", NoneV}) =>
        /\ ~Returned("2.2.4.11", REJECT)
        /\ ~Returned("2.2.7.2", REJECT)
        /\ ~Returned("2.19.2.4", REJECT)
        /\ \E i \in 1..Len(result.warnings) :
              result.warnings[i].severity = INFORM_WARNING

\* the direct call of rule function f has returned
Called(f) == fn.op = "output" /\ fn.f = f

\* C11: for an IVA entry with unit code 1 and taxable amount "1000.00", a tax
\* amount of "120.00" yields no 2.7.4.1 finding, and a tax amount of "121.00"
\* yields the REJECT finding 2.7.4.1 with expected value "120.00" and actual
\* value "121.00".
C11_IvaExpectedRoundedToCents ==
    (Called("_validate_iva_tax") /\ fn.arg.CodigoUnidadGravable = Whole(1)
        /\ fn.arg.MontoGravable = Dec(100000, 2)) =>
        /\ ~fn.out.raised
        /\ fn.arg.MontoImpuesto = Num(12000) => "2.7.4.1" \notin Codes(fn.out.errs)
        /\ fn.arg.MontoImpuesto = Num(12100) =>
              \E i \in 1..Len(fn.out.errs) :
                 fn.out.errs[i] =
                    BusinessValidationError("2.7.4.1", REJECT, "120.00", "121.00")

\* round2 of the specification: a non-negative amount rounded half-up to cents
Round2(x) ==
    IF x.s <= 2 THEN Dec(Align(x, 2), 2)
    ELSE Dec((x.v + 5 * Pow10(x.s - 3)) \div Pow10(x.s - 2), 2)

\* C12: an item gets finding 2.3.5.1 exactly when its price differs by more than
\* 0.01 from quantity x unit price rounded half-up to two decimals
C12_PriceAgainstRoundedProduct ==
    (Called("_validate_single_item") /\ ~fn.out.raised) =>
        LET quantity == DecimalOrZero(fn.arg.Cantidad)
            unit_price == DecimalOrZero(fn.arg.PrecioUnitario)
            price == DecimalOrZero(fn.arg.Precio)
        IN ("2.3.5.1" \in Codes(fn.out.errs))
              <=> DecGt(DecAbs(DecSub(price, Round2(DecMul(quantity, unit_price)))),
                        Dec(MONETARY_TOLERANCE, 2))

RECURSIVE SumOfTotals(_, _)
\* the sum of the Total fields the items carry, in units of 10^-s
SumOfTotals(items, s) ==
    IF items = <<>> THEN 0
    ELSE (IF Head(items).Total.k = "num" THEN Align(Head(items).Total, s) ELSE 0)
         + SumOfTotals(Tail(items), s)

AllTotalsNumeric(items) == \A i \in 1..Len(items) : items[i].Total.k # "bad"

Count(errs, rule_code) == Cardinality({i \in 1..Len(errs) : errs[i].code = rule_code})

\* C13: on a document with a numeric GranTotal (and numeric item totals),
\* validate_totals produces no finding 2.19.2.1 when GranTotal equals the sum of
\* the items' totals, and exactly one, of severity REJECT, when GranTotal is more
\* than 0.01 above or below that sum
C13_GrandTotalAgainstItemSum ==
    (Called("validate_totals") /\ fn.arg.GranTotal.k = "num"
        /\ AllTotalsNumeric(fn.arg.items)) =>
        LET grand_total == Align(fn.arg.GranTotal, 3)
            sum == SumOfTotals(fn.arg.items, 3)
        IN /\ ~fn.out.raised
           /\ grand_total = sum => Count(fn.out.errs, "2.19.2.1") = 0
           /\ Abs(grand_total - sum) > 10 * MONETARY_TOLERANCE =>
                 /\ Count(fn.out.errs, "2.19.2.1") = 1
                 /\ \A i \in 1..Len(fn.out.errs) :
                       fn.out.errs[i].code = "2.19.2.1" =>
                          fn.out.errs[i].severity = REJECT

\* a grand total of 100.00 on two items summing to 150.00 was rejected once
C13_Witness ==
    /\ Called("validate_totals")
    /\ Len(fn.arg.items) = 2
    /\ SumOfTotals(fn.arg.items, 2) = 15000
    /\ fn.arg.GranTotal = Num(10000)
    /\ Count(fn.out.errs, "2.19.2.1") = 1

\* C14 as stated: for 550e8400-e29b-41d4-a716-446655440000 the derived serie is
\* "550E8400" and the derived numero is 809938325; a document carrying that
\* numero yields no finding 3.12.7.1, and one with a different serie yields
\* 3.12.6.1 with expected value "550E8400"
C14_SampleNumeroAsStated ==
    (Called("validate_uuid_format") /\ fn.arg.NumeroAutorizacion = SampleUuid) =>
        /\ Text(generate_serie_from_uuid(SampleUuid)) = "550E8400"
        /\ generate_numero_from_uuid(SampleUuid) = 809938325
        /\ fn.arg.Numero = str_int(809938325) => "3.12.7.1" \notin Codes(fn.out.errs)
        /\ fn.arg.Serie # generate_serie_from_uuid(SampleUuid) =>
              \E i \in 1..Len(fn.out.errs) :
                 /\ fn.out.errs[i].code = "3.12.6.1"
                 /\ fn.out.errs[i].expected_value = "550E8400"

\* C14, amended: for 550e8400-e29b-41d4-a716-446655440000 the derived serie is
\* "550E8400" and the derived numero, int("e29b41d4", 16) mod 999999999, is
\* 801825751; a document carrying that numero yields no finding 3.12.7.1, and
\* one with a different serie yields 3.12.6.1 with expected value "550E8400"
C14_SampleUuidDerivation ==
    (Called("validate_uuid_format") /\ fn.arg.NumeroAutorizacion = SampleUuid) =>
        /\ Text(generate_serie_from_uuid(SampleUuid)) = "550E8400"
        /\ generate_numero_from_uuid(SampleUuid) = 801825751
        /\ int_parse(fn.arg.Numero) = [ok |-> TRUE, val |-> 801825751] =>
              "3.12.7.1" \notin Codes(fn.out.errs)
        /\ fn.arg.Serie # generate_serie_from_uuid(SampleUuid) =>
              \E i \in 1..Len(fn.out.errs) :
                 /\ fn.out.errs[i].code = "3.12.6.1"
                 /\ fn.out.errs[i].expected_value = "550E8400"

\* the sample UUID with its derived numero and a serie in lower case: the serie
\* was rejected and the numero was not
C14_Witness ==
    /\ Called("validate_uuid_format")
    /\ fn.arg.NumeroAutorizacion = SampleUuid
    /\ fn.arg.Numero = str_int(801825751)
    /\ fn.arg.Serie = <<"5", "5", "0", "e", "8", "4", "0", "0">>
    /\ Codes(fn.out.errs) = {"3.12.6.1"}

UuidFindingCodes == {"3.12.5.1", "3.12.6.1", "3.12.7.0", "3.12.7.1"}

\* C15: for every UUID text UUID_PATTERN accepts, in either letter case, a document
\* whose Serie is generate_serie_from_uuid of it and whose Numero is the decimal
\* text of generate_numero_from_uuid of it gets none of the findings 3.12.5.1,
\* 3.12.6.1, 3.12.7.0 and 3.12.7.1 from validate_uuid_format
C15_DerivedSerieNumeroRoundTrip ==
    (/\ Called("validate_uuid_format")
     /\ fn.arg.NumeroAutorizacion # NoId
     /\ UUID_PATTERN(fn.arg.NumeroAutorizacion)
     /\ fn.arg.Serie = generate_serie_from_uuid(fn.arg.NumeroAutorizacion)
     /\ fn.arg.Numero = str_int(generate_numero_from_uuid(fn.arg.NumeroAutorizacion))) =>
        /\ ~fn.out.raised
        /\ Codes(fn.out.errs) \cap UuidFindingCodes = {}

\* a UUID written in mixed case, with a time-mid part beyond the modulus, passed
\* with its derived serie and numero
C15_Witness ==
    /\ Called("validate_uuid_format")
    /\ fn.arg.NumeroAutorizacion # NoId
    /\ Text(SubSeq(fn.arg.NumeroAutorizacion, 1, 13)) = "AbCdEf12-FfFf"
    /\ fn.arg.Serie = <<"A", "B", "C", "D", "E", "F", "1", "2">>
    /\ fn.arg.Numero = str_int(generate_numero_from_uuid(fn.arg.NumeroAutorizacion))
    /\ fn.out = Returns(<<>>)

\* the texts that differ from s in one digit among the positions given
Replacements(s, positions) ==
    {[s EXCEPT ![p] = DigitChars[d]] : p \in positions, d \in 1..10} \ {s}

\* C16 as stated: a 13-digit text that differs in one of its digits 1..8 from a
\* text validate_cui accepts is not accepted by validate_cui
C16_AnyReplacementRejected ==
    (Called("validate_cui") /\ CUI_PATTERN(fn.arg)) =>
        \A s \in Replacements(fn.arg, 1..8) : validate_cui(s) => fn.out = FALSE

\* C16, amended: a 13-digit text that differs in one of its digits 1..8 from a
\* text validate_cui accepts, whose ninth digit is not 0, is not accepted by
\* validate_cui
C16_ReplacementRejectedUnlessCheckZero ==
    (Called("validate_cui") /\ CUI_PATTERN(fn.arg) /\ fn.arg[9] # "0") =>
        \A s \in Replacements(fn.arg, 1..8) : validate_cui(s) => fn.out = FALSE

\* 2000000090101 was rejected, one digit away from the valid 1000000090101
C16_Witness ==
    /\ Called("validate_cui")
    /\ CUI_PATTERN(fn.arg)
    /\ Text(fn.arg) = "2000000090101"
    /\ [fn.arg EXCEPT ![1] = "1"] \in Replacements(fn.arg, 1..8)
    /\ validate_cui([fn.arg EXCEPT ![1] = "1"])
    /\ fn.out = FALSE

\* a numeric prefix of 1..12 digits followed by one of 0..9 and K
PrefixAndTerminal(nit) ==
    /\ Len(nit) \in 2..13
    /\ \A i \in 1..(Len(nit) - 1) : IsDigit(nit[i])
    /\ (IsDigit(nit[Len(nit)]) \/ nit[Len(nit)] = "K")

RECURSIVE WeightedSum(_, _, _)
\* the sum of digit_i x (first + 1 - i) over the digits, i counted from 1
WeightedSum(digits, i, first) ==
    IF i > Len(digits) THEN 0
    ELSE DigitVal(digits[i]) * (first + 1 - i) + WeightedSum(digits, i + 1, first)

\* '0' if r = 0, 'K' if r = 1, else the decimal digit 11 - r
TerminalFor(r) ==
    IF r = 0 THEN "0" ELSE IF r = 1 THEN "K" ELSE DigitChars[(11 - r) + 1]

\* C17 as stated: validate_nit accepts a numeric prefix of 1..12 digits followed by
\* a terminal among 0..9 and K exactly when the terminal is the one for
\* r = (sum of digit_i x (len + 1 - i)) mod 11, len the number of digits of the
\* prefix and i counted from 1
C17_TerminalByPrefixLength ==
    (Called("validate_nit") /\ PrefixAndTerminal(fn.arg)) =>
        LET prefix == SubSeq(fn.arg, 1, Len(fn.arg) - 1)
            r == WeightedSum(prefix, 1, Len(prefix)) % 11
        IN fn.out = (fn.arg[Len(fn.arg)] = TerminalFor(r))

\* C17, amended: validate_nit accepts a numeric prefix of 1..12 digits followed by
\* a terminal among 0..9 and K exactly when the terminal is the one for
\* r = (sum of digit_i x (len + 2 - i)) mod 11, len the number of digits of the
\* prefix and i counted from 1: the last digit of the prefix weighs 2
C17_ExactlyOneTerminal ==
    (Called("validate_nit") /\ PrefixAndTerminal(fn.arg)) =>
        LET prefix == SubSeq(fn.arg, 1, Len(fn.arg) - 1)
            r == WeightedSum(prefix, 1, Len(prefix) + 1) % 11
        IN fn.out = (fn.arg[Len(fn.arg)] = TerminalFor(r))

\* 576937K, whose prefix has r = 1, was accepted
C17_Witness ==
    /\ Called("validate_nit")
    /\ Text(fn.arg) = "576937K"
    /\ WeightedSum(SubSeq(fn.arg, 1, 6), 1, 7) % 11 = 1
    /\ fn.out = TRUE

\* C18: validate_nit accepts the text CF
C18_CfSentinelAccepted ==
    (Called("validate_nit") /\ fn.arg = CF) => fn.out = TRUE

\* the findings General Part 1 contributes to the verdict of document d
GeneralPart1Codes(d) ==
    IF GroupCall(1, d).raised THEN {SystemCodes[1]}
    ELSE Codes(validation_func(1, d).errs)

\* C19: an export of a type other than NDEB and NCRE gets the REJECT finding
\* 2.2.5.2 from validate_dte if and only if it has no Exportacion complement; with
\* the complement its General Part 1 findings are those of the same document
\* without the complement, less 2.2.5.2; NDEB and NCRE exports never get 2.2.5.2
C19_ExportComplementRequired ==
    (UndisturbedVerdict /\ doc.Exp) =>
        IF doc.TipoDTE \in {"NDEB", "NCRE"}
        THEN "2.2.5.2" \notin ReturnedCodes
        ELSE /\ Returned("2.2.5.2", REJECT) <=> doc.Exportacion = "absent"
             /\ doc.Exportacion # "absent" =>
                   Codes(OfGroup(result.errors, 1)) \cup Codes(OfGroup(result.warnings, 1))
                      = GeneralPart1Codes([doc EXCEPT !.Exportacion = "absent"])
                           \ {"2.2.5.2"}

\* C20: a public-show document gets the REJECT finding 2.3.1.1 from validate_dte
\* unless it has exactly one item: with no item and with two or more it does
C20_PublicShowExactlyOneItem ==
    (UndisturbedVerdict /\ doc.EspectaculoPublico) =>
        (Returned("2.3.1.1", REJECT) <=> Len(doc.items) # 1)

RECURSIVE VerdictErrors(_, _)
\* the errors list validate_dte builds for document d from group g on
VerdictErrors(d, g) ==
    IF g > NGroups THEN <<>>
    ELSE (IF GroupCall(g, d).raised THEN SystemFinding(g)
          ELSE GroupErrors(GroupCall(g, d).errs, g))
         \o VerdictErrors(d, g + 1)

RECURSIVE VerdictWarnings(_, _)
\* the warnings list validate_dte builds for document d from group g on
VerdictWarnings(d, g) ==
    IF g > NGroups THEN <<>>
    ELSE (IF GroupCall(g, d).raised THEN <<>>
          ELSE GroupWarnings(GroupCall(g, d).errs, g))
         \o VerdictWarnings(d, g + 1)

\* the fields of the findings whose code is not among the codes given, in order
Outside(findings, codes) ==
    LET kept == SelectSeq(findings, LAMBDA f : f.code \notin codes)
    IN [i \in 1..Len(kept) |->
           [code |-> kept[i].code, severity |-> kept[i].severity,
            expected_value |-> kept[i].expected_value,
            actual_value |-> kept[i].actual_value]]

\* the codes 2.2.5.x, 2.2.6.x, 2.6.1.6, 2.6.1.7 and 3.2.1.x of the engine
ExportCodes ==
    {"2.2.5.1", "2.2.5.2", "2.2.6.1", "2.2.6.2", "2.2.6.3", "2.6.1.6", "2.6.1.7",
     "3.2.1.1", "3.2.1.2"}

\* the same document with the export flag toggled
ExportToggled == [doc EXCEPT !.Exp = ~doc.Exp]

\* C21 as stated: the verdicts of validate_dte on a document and on the same
\* document with the export flag toggled hold the same findings, apart from those
\* with a code 2.2.5.x, 2.2.6.x, 2.6.1.6, 2.6.1.7 or 3.2.1.x
C21_ExportDiffAsStated ==
    (result.returned /\ DocParsed) =>
        /\ Outside(result.errors, ExportCodes)
              = Outside(VerdictErrors(ExportToggled, 1), ExportCodes)
        /\ Outside(result.warnings, ExportCodes)
              = Outside(VerdictWarnings(ExportToggled, 1), ExportCodes)

\* C21, amended: the verdicts of validate_dte on a document and on the same
\* document with the export flag toggled hold the same findings, apart from those
\* with a code 2.2.4.2, 2.2.5.x, 2.2.6.x, 2.6.1.6, 2.6.1.7 or 3.2.1.x
C21_ExportDiffConfined ==
    (result.returned /\ DocParsed) =>
        /\ Outside(result.errors, ExportCodes \cup {"2.2.4.2"})
              = Outside(VerdictErrors(ExportToggled, 1), ExportCodes \cup {"2.2.4.2"})
        /\ Outside(result.warnings, ExportCodes \cup {"2.2.4.2"})
              = Outside(VerdictWarnings(ExportToggled, 1),
                        ExportCodes \cup {"2.2.4.2"})

\* an export to a bad NIT without complement: the finding on the receptor stands
\* in the verdict next to the export findings, which the non-export lacks
C21_Witness ==
    /\ result.returned /\ DocParsed
    /\ doc.Exp
    /\ {"2.2.4.4", "2.2.5.2", "3.2.1.1"} \subseteq Codes(result.errors)
    /\ "2.6.1.6" \in Codes(result.warnings)
    /\ "2.2.4.4" \in Codes(VerdictErrors(ExportToggled, 1))
    /\ Codes(VerdictErrors(ExportToggled, 1)) \cap ExportCodes = {}

\* C22: two invocations of validate_dte with the same XML and the same registry
\* answers return identical errors and warnings lists -- the same findings with
\* the same field values in the same order -- whatever was called in between.
C22_RepeatedCallSameVerdict ==
    \A i, j \in 1..Len(history) :
        history[i].doc = history[j].doc =>
            /\ history[i].errors = history[j].errors
            /\ history[i].warnings = history[j].warnings

\* the same document validated twice with another one in between, each verdict
\* carrying errors and warnings
C22_Witness ==
    /\ Len(history) = 3
    /\ history[1].doc = history[3].doc
    /\ history[2].doc # history[1].doc
    /\ history[1].errors # <<>>
    /\ history[1].warnings # <<>>
    /\ history[2].errors # <<>>

XmlCodes(findings) == {findings[i].code : i \in 1..Len(findings)}

\* load_schema reaches its refresh with a parsable blob on disk, a sidecar older
\* than the cache duration, and a fetch that fails with a RequestException
StaleBlobFetchFails ==
    /\ schemas = NoneV
    /\ blob.k = "file" /\ IsXsd(blob.content)
    /\ sidecar.k = "ok" /\ now - sidecar.cached_at >= cache_duration_hours
    /\ net = "fail"

\* C23: when the blob is on disk, its sidecar is stale and the refresh fetch
\* fails, load_schema still returns the schema parsed from the stale blob:
\* validate_xml validates against it, its verdict carries a warning and no
\* SCHEMA_LOAD_ERROR.
C23_StaleBlobServedOnFetchFailure ==
    [][(ValidateXml /\ _parse_xml(doc).root /\ StaleBlobFetchFails) =>
          /\ xmlResult'.kind = "verdict"
          /\ "SCHEMA_LOAD_ERROR" \notin XmlCodes(xmlResult'.errors)
          /\ xmlResult'.schema_used = "GT_DOCUMENTO"
          /\ xmlResult'.warnings # <<>>]_vars

\* the on-disk entry is missing, or its sidecar is older than the cache duration
EntryMissingOrStale ==
    \/ blob.k = "missing"
    \/ sidecar.k = "ok" /\ now - sidecar.cached_at >= cache_duration_hours

EntryFresh ==
    /\ blob.k = "file"
    /\ sidecar.k = "ok" /\ now - sidecar.cached_at < cache_duration_hours

\* C26: every load_schema call made while the on-disk entry is missing or its
\* sidecar is older than 24 hours attempts a fetch before it returns (seen here
\* with a network that answers: the blob and the sidecar are rewritten), and a
\* call made while the entry is fresh fetches nothing -- for every call of any
\* sequence, calls after the name was loaded once included.
C26_FetchExactlyWhenMissingOrStale ==
    [][(ValidateXml /\ _parse_xml(doc).root) =>
          /\ (EntryMissingOrStale /\ net = "ok") =>
                 (blob' = File("XSD_B") /\ sidecar' = Info(now, "XSD_B"))
          /\ EntryFresh => (blob' = blob /\ sidecar' = sidecar)]_vars

\* the sidecar describes the blob on disk, or neither file exists
EntryConsistent ==
    \/ blob.k = "missing" /\ sidecar.k = "missing"
    \/ blob.k = "file" /\ sidecar.k = "ok" /\ sidecar.hash = blob.content

\* load_schema reaches _download_schema
DownloadCalled ==
    /\ schemas = NoneV
    /\ \/ blob.k = "missing"
       \/ ~_is_cache_valid.raised /\ ~_is_cache_valid.val

\* C30: starting from a cache entry whose sidecar describes its blob, after a
\* _download_schema call a sidecar that exists and reports the entry fresh
\* records the hash of exactly the blob on disk, and a download that fails
\* (network error, I/O error writing the blob or the sidecar) leaves both the
\* blob and the sidecar as they were.
C30_SidecarDescribesBlob ==
    [][(ValidateXml /\ _parse_xml(doc).root /\ EntryConsistent /\ DownloadCalled) =>
          /\ (sidecar'.k = "ok" /\ now - sidecar'.cached_at < cache_duration_hours)
                 => (blob'.k = "file" /\ blob'.content = sidecar'.hash)
          /\ ~_download_schema.ok => (blob' = blob /\ sidecar' = sidecar)]_vars

\* C24: in every interleaving of concurrent load_schema calls for one name, no
\* reader parses a partially written blob: the blob XMLSchema() is given is
\* always the complete content of some finished download.
C24_NoReaderSeesPartialBlob ==
    \A i \in 1..Len(parses) : parses[i] \in {"XSD_A", "XSD_B", "GARBAGE"}

\* C25: however many threads call load_schema(name) concurrently on one
\* SchemaManager, the XSD is parsed at most once in the process.
C25_ParsedAtMostOnce == Len(parses) <= 1

\* the codes of the findings validate_phrases contributed to the verdict
PhraseCodes == Codes(OfGroup(result.warnings, 4)) \cup Codes(OfGroup(result.errors, 4))

\* the document's phrase_types_present
DocPhraseTypes == PhraseTypesPresent(doc.phrases, <<>>)

\* the ISR-affiliation rule applies: phrase type 1, scenario 1, issuer not REG
IsrAffiliationRuleApplies ==
    /\ DictHas(DocPhraseTypes, 1)
    /\ DictGet(DocPhraseTypes, 1) = 1
    /\ get_taxpayer_info(doc.NITEmisor).val.isr_affiliation # "REG"

\* the invalid-scenario rule applies: phrase type 4, scenario not in the table
InvalidScenarioRuleApplies ==
    /\ DictHas(DocPhraseTypes, 4)
    /\ DictGet(DocPhraseTypes, 4) \notin DOMAIN IVA_EXEMPTION_SCENARIOS

\* C27: each finding code identifies a single rule: 2.6.1.1 is emitted only by
\* the ISR-affiliation rule and 2.6.1.3 only by the invalid-scenario rule,
\* never by the phrase-type-4 'scenario not allowed for DTE type' rule.
C27_ScenarioCodesNameOneRule ==
    (result.returned /\ DocParsed /\ doc.NITEmisor # NoId) =>
        /\ "2.6.1.1" \in PhraseCodes => IsrAffiliationRuleApplies
        /\ "2.6.1.3" \in PhraseCodes => InvalidScenarioRuleApplies

\* how often the finding e occurs in the list
Occurrences(findings, e) == Cardinality({i \in 1..Len(findings) : findings[i] = e})

\* the groups that returned normally in the call that produced the verdict
CompletedGroups == {g \in Groups : ~GroupCall(g, doc).raised}

\* C28: in a verdict of validate_dte every finding in errors has severity REJECT
\* and every finding in warnings INFORM_ERROR or INFORM_WARNING; each finding a
\* completed group returned is in exactly one of the two lists, exactly once;
\* so blocking_errors equals errors and has_blocking_errors equals not is_valid.
C28_SeverityPartition ==
    result.returned =>
        /\ \A i \in 1..Len(result.errors) : result.errors[i].severity = REJECT
        /\ \A i \in 1..Len(result.warnings) :
              result.warnings[i].severity \in {INFORM_ERROR, INFORM_WARNING}
        /\ DocParsed =>
              \A g \in CompletedGroups :
                  LET returned == Tagged(GroupCall(g, doc).errs, g)
                  IN \A i \in 1..Len(returned) :
                        Occurrences(result.errors, returned[i])
                        + Occurrences(result.warnings, returned[i]) = 1
        /\ blocking_errors(result) = result.errors
        /\ has_blocking_errors(result) = ~result.is_valid

\* a verdict in which one group contributed to both lists, beside a group that
\* raised
C28_Witness ==
    /\ result.returned /\ DocParsed
    /\ ~result.is_valid
    /\ \E g \in CompletedGroups :
          OfGroup(result.errors, g) # <<>> /\ OfGroup(result.warnings, g) # <<>>
    /\ CompletedGroups # Groups

RECURSIVE CompletedGroupNames(_)
\* the names of the groups from g on that returned normally, in the order of
\* the loop
CompletedGroupNames(g) ==
    IF g > NGroups THEN <<>>
    ELSE (IF GroupCall(g, doc).raised THEN <<>> ELSE <<GroupNames[g]>>)
         \o CompletedGroupNames(g + 1)

\* C29: when a group raises part-way, the verdict holds none of the findings the
\* group had collected before raising, only its SYSTEM_<GROUP> finding, and the
\* group's name is not in rules_applied; rules_applied is exactly the
\* subsequence of the eight group names, in order, of the groups that returned
\* normally, and it is empty when the XML does not parse.
C29_RaisingGroupLeavesOnlySystemFinding ==
    result.returned =>
        IF DocParsed
        THEN /\ \A g \in Groups :
                   GroupCall(g, doc).raised =>
                       /\ OfGroup(result.errors, g) = SystemFinding(g)
                       /\ OfGroup(result.warnings, g) = <<>>
                       /\ \A i \in 1..Len(result.rules_applied) :
                             result.rules_applied[i] # GroupNames[g]
             /\ result.rules_applied = CompletedGroupNames(1)
        ELSE result.rules_applied = <<>>

\* a verdict after a group raised with findings collected, among groups that
\* returned
C29_Witness ==
    /\ result.returned /\ DocParsed
    /\ \E g \in Groups :
          /\ GroupCall(g, doc).raised
          /\ GroupCall(g, doc).errs # <<>>
          /\ OfGroup(result.errors, g) = SystemFinding(g)
    /\ Len(result.rules_applied) > 0

=============================================================================
